---- MODULE Spec2Model ----
(***************************************************************************)
(* Model of the clauderc global installer (bin/cli.js): version            *)
(* comparison, backup, copy, init and update over a home directory, a      *)
(* shipped package manifest and the persisted installed manifest.          *)
(***************************************************************************)
EXTENDS Integers, Sequences, FiniteSets, TLC

(***************************************************************************)
(* Bounds                                                                  *)
(***************************************************************************)
\* largest clock second the model reaches (backup names carry the second)
MaxClock == 1
\* largest component value of the version strings fed to isNewer
MaxComp == 2
\* most marker files in a project directory whose detection is checked
MaxFiles == 2
\* most tool dependencies in a package.json whose detection is checked
MaxTools == 3
\* most custom rules entered in the wizard
MaxRules == 1

(***************************************************************************)
(* Versions.  A version string "a.b.c" is modelled by the result of        *)
(* split('.').map(Number), a sequence of naturals of length 1..3; a        *)
(* missing (undefined) version is NoVersion.                               *)
(***************************************************************************)
NoVersion == << >>

\* the value of a destructured array element that does not exist
Undefined == -1

V000 == <<0, 0, 0>>
V100 == <<1, 0, 0>>
V110 == <<1, 1, 0>>

\* parse = (v) => (v || '0.0.0').split('.').map(Number)
parse(v) == IF v = NoVersion THEN V000 ELSE v

\* const [a, b, c] = parse(v): a missing element is undefined
Component(p, i) == IF i <= Len(p) THEN p[i] ELSE Undefined

\* x > y of JavaScript on numbers and undefined: undefined converts to NaN,
\* and every comparison with NaN is false
JsGreater(x, y) == x # Undefined /\ y # Undefined /\ x > y

isNewerLexicographic(v1, v2) ==
    LET P(v) == [i \in 1..3 |-> IF i <= Len(parse(v)) THEN parse(v)[i] ELSE 0]
        p1 == P(v1)
        p2 == P(v2)
    IN  IF p1[1] # p2[1] THEN p1[1] > p2[1]
        ELSE IF p1[2] # p2[2] THEN p1[2] > p2[2]
        ELSE p1[3] > p2[3]

\* cli.js isNewer
isNewer(v1, v2) ==
    LET a1 == Component(parse(v1), 1)
        b1 == Component(parse(v1), 2)
        c1 == Component(parse(v1), 3)
        a2 == Component(parse(v2), 1)
        b2 == Component(parse(v2), 2)
        c2 == Component(parse(v2), 3)
    IN  IF a1 # a2 THEN JsGreater(a1, a2)
        ELSE IF b1 # b2 THEN JsGreater(b1, b2)
        ELSE JsGreater(c1, c2)


(***************************************************************************)
(* The home directory, the shipped package and the installed manifest      *)
(***************************************************************************)
\* file-keys of the shipped manifest, in the order Object.entries yields them
KeyOrder == <<"A", "B">>
Keys == {KeyOrder[i] : i \in 1..Len(KeyOrder)}

CLAUDE_DIR == "~/.claude"
CURSOR_DIR == "~/.cursor/rules"
ClaudeBaseDirs == {"~/.claude/agents", "~/.claude/skills", "~/.claude/commands",
                   "~/.claude/templates", "~/.claude/hooks"}
AllDirs == {CLAUDE_DIR, "~/.cursor", CURSOR_DIR} \cup ClaudeBaseDirs


\* the directories mkdirSync(dir, {recursive: true}) makes sure exist
withParents(d) == IF d = CURSOR_DIR THEN {"~/.cursor", CURSOR_DIR}
                  ELSE IF d = CLAUDE_DIR THEN {CLAUDE_DIR}
                  ELSE IF d = "~/.cursor" THEN {"~/.cursor"}
                  ELSE {CLAUDE_DIR, d}

V120 == <<1, 2, 0>>
ToolVersions == {V100, V110}
FileVersions == {V100, V110}

\* content of a file: nothing, something the user wrote, or the shipped
\* template of a given file version
Absent == [from |-> "absent", ver |-> NoVersion]
UserContent == [from |-> "user", ver |-> NoVersion]
Shipped(v) == [from |-> "package", ver |-> v]

\* templates/manifest.json of a release: tool version and file versions
NoPackage == [present |-> FALSE, version |-> NoVersion, files |-> << >>]
Package(v, f) == [present |-> TRUE, version |-> v, files |-> f]
PackagesOver(keys, tools) ==
    {Package(v, f) : v \in tools, f \in UNION {[S -> FileVersions] : S \in SUBSET keys}}

\* the source files a release may hold: all of them, or all but one
SourceSets == {Keys, Keys \ {"A"}}

NoProviders == << >>
includes(list, x) == \E i \in 1..Len(list) : list[i] = x

NoFiles == [k \in {} |-> NoVersion]

\* what JSON.parse(readFileSync(MANIFEST_FILE)) yields, or why it does not
NullManifest == [state |-> "null", version |-> NoVersion, providers |-> NoProviders,
                 files |-> NoFiles]
BrokenManifest(s) == [NullManifest EXCEPT !.state = s]

VARIABLES
    providerOf,   \* the provider field of every key's manifest entries
    pkg,          \* the shipped manifest of the package being run
    srcPresent,   \* the keys whose source file exists in the package
    dest,         \* content of every key's destination path
    backups,      \* content of every <<key, second>> backup path
    dirs,         \* the directories that exist under the home directory
    manifestFile, \* ~/.claude/.clauderc.json
    clock,        \* wall clock, in seconds
    last,         \* what the last run of the CLI from this package did and reported
    compared,     \* a call of isNewer: its arguments and its result
    project,      \* the project directory the detector and the wizard look at
    detected,     \* a call of detectStack: whether made, and its result
    generated,    \* a call of generateCommands: its argument and its result
    resolved,     \* a call of resolveProviders: its argument and its result
    rendered,     \* a call of a command file generator: its arguments and its result
    wiz           \* a run of the project wizard: its position and its effects

\* the variables of the project side of the CLI
projectVars == <<project, detected, generated, resolved, rendered, wiz>>

vars == <<providerOf, pkg, srcPresent, dest, backups, dirs, manifestFile, clock,
          last, compared, rendered, project, detected, generated, resolved, wiz>>

\* const fileProvider = fileMeta.provider || 'claude'
fileProvider(k) == providerOf[k]

\* dirname(getDestPath(fileKey)): the keys of provider cursor are the keys
\* that start with 'cursor/'
destDir(k) == IF fileProvider(k) = "cursor" THEN CURSOR_DIR ELSE "~/.claude/commands"

BackupSlots == Keys \X (0..MaxClock)

Op(o, t) == [op |-> o, target |-> t]

\* the filesystem as one value, threaded through the helpers of a run
FS == [dest |-> dest, backups |-> backups, dirs |-> dirs, ops |-> << >>]

existsSync(fs, k) == fs.dest[k] # Absent

\* cli.js ensureDir
ensureDir(fs, d) ==
    IF d \in fs.dirs THEN fs
    ELSE [fs EXCEPT !.dirs = @ \cup withParents(d),
                    !.ops = Append(@, Op("mkdir", d))]

\* cli.js backupFile: renameSync replaces an existing backupPath
backupFile(fs, k) ==
    IF existsSync(fs, k)
    THEN [fs EXCEPT !.backups[<<k, clock>>] = fs.dest[k],
                    !.dest[k] = Absent,
                    !.ops = Append(@, Op("rename", k))]
    ELSE fs

\* cpSync(src, dest)
cpSync(fs, k) ==
    [fs EXCEPT !.dest[k] = Shipped(pkg.files[k]),
               !.ops = Append(@, Op("copy", k))]

copyFileNoBackup(fs, k, backup, dryRun) ==
    LET fs1 == ensureDir(fs, destDir(k))
    IN  IF ~dryRun THEN cpSync(fs1, k) ELSE fs1

\* cli.js copyFile
copyFile(fs, k, backup, dryRun) ==
    LET fs1 == ensureDir(fs, destDir(k))
        fs2 == IF backup /\ existsSync(fs1, k) /\ ~dryRun
               THEN backupFile(fs1, k) ELSE fs1
    IN  IF ~dryRun THEN cpSync(fs2, k) ELSE fs2

\* a loader that takes the package manifest as present whatever the package
loadPackageManifestUnchecked == [pkg EXCEPT !.present = TRUE]

\* cli.js loadPackageManifest (null is NoPackage)
loadPackageManifest == pkg

loadInstalledManifestStrict ==
    IF manifestFile.state = "missing" THEN NullManifest ELSE manifestFile

\* cli.js loadInstalledManifest
loadInstalledManifest ==
    IF manifestFile.state = "valid" THEN manifestFile ELSE NullManifest


(***************************************************************************)
(* init                                                                    *)
(***************************************************************************)
Put(f, k, v) == [x \in DOMAIN f \cup {k} |-> IF x = k THEN v ELSE f[x]]

\* an entry of the installed manifest (its installedAt timestamp is left out)
Entry(v, from) == [version |-> v]

\* installed?.files?.[fileKey]?.version
installedVersionOf(installed, k) ==
    IF k \in DOMAIN installed.files THEN installed.files[k].version ELSE NoVersion

\* what a run reports; the key sets are the keys counted by each counter
Report(cmd, dryRun, force, providerIds) ==
    [cmd |-> cmd, dryRun |-> dryRun, force |-> force, providerIds |-> providerIds,
     exit |-> "ok", ranInit |-> FALSE, upToDate |-> FALSE, again |-> FALSE,
     created |-> {}, updated |-> {}, skipped |-> {}, removed |-> {},
     ops |-> << >>]

NoRun == Report("none", FALSE, FALSE, NoProviders)

\* the answers typed at the provider prompt, and parseInt(answer.trim())
Answers == {"", "1", "2", "3", "4", "x"}
NaN == -1
parseInt(a) == CASE a = "1" -> 1 [] a = "2" -> 2 [] a = "3" -> 3 [] a = "4" -> 4
                 [] OTHER -> NaN

\* getProviderChoices() ids
Choices == <<"claude", "cursor", "both">>

\* provider ids of a choice id: 'both' ? ['claude', 'cursor'] : [id]
idsOf(id) == IF id = "both" THEN <<"claude", "cursor">> ELSE <<id>>

\* init: "Determine providers"; provider "null" is the absent option
determineProviders(provider, answer) ==
    IF provider # "null" THEN idsOf(provider)
    ELSE LET index == parseInt(answer) - 1
             selected == IF index + 1 \in 1..Len(Choices)
                         THEN Choices[index + 1] ELSE Choices[1]
         IN  idsOf(selected)

\* init: "Create base directories"
RECURSIVE ensureAll(_, _)
ensureAll(fs, ds) ==
    IF ds = {} THEN fs
    ELSE LET d == CHOOSE x \in ds : TRUE
         IN  ensureAll(ensureDir(fs, d), ds \ {d})

createBaseDirs(fs, providerIds) ==
    LET fs1 == IF includes(providerIds, "claude")
               THEN ensureAll(fs, ClaudeBaseDirs) ELSE fs
    IN  IF includes(providerIds, "cursor") THEN ensureDir(fs1, CURSOR_DIR) ELSE fs1

\* init: const needsUpdate = !installedVersion || isNewer(...)
needsUpdate(installed, k) ==
    \/ installedVersionOf(installed, k) = NoVersion
    \/ isNewer(pkg.files[k], installedVersionOf(installed, k))

\* init: the body of the loop over Object.entries(pkg.files)
initFile(acc, k, installed, providerIds, force, dryRun) ==
    IF \/ k \notin DOMAIN pkg.files
       \/ ~includes(providerIds, fileProvider(k))
       \/ k \notin srcPresent
    THEN acc
    ELSE LET entry == Entry(pkg.files[k], NoVersion)
         IN  IF ~existsSync(acc.fs, k)
             THEN [acc EXCEPT !.fs = copyFile(acc.fs, k, FALSE, dryRun),
                              !.created = @ \cup {k},
                              !.files = Put(@, k, entry)]
             ELSE IF force \/ needsUpdate(installed, k)
             THEN [acc EXCEPT !.fs = copyFile(acc.fs, k, TRUE, dryRun),
                              !.updated = @ \cup {k},
                              !.files = Put(@, k, entry)]
             ELSE [acc EXCEPT !.skipped = @ \cup {k},
                              !.files = Put(@, k, entry)]

RECURSIVE initLoop(_, _, _, _, _, _)
initLoop(i, acc, installed, providerIds, force, dryRun) ==
    IF i > Len(KeyOrder) THEN acc
    ELSE initLoop(i + 1,
                  initFile(acc, KeyOrder[i], installed, providerIds, force, dryRun),
                  installed, providerIds, force, dryRun)

\* the outcome of a run: the filesystem, the manifest file and the report
Outcome(fs, mf, report) ==
    [dest |-> fs.dest, backups |-> fs.backups, dirs |-> fs.dirs,
     manifestFile |-> mf, last |-> [report EXCEPT !.ops = fs.ops]]

\* cli.js saveInstalledManifest: writeFileSync throws when ~/.claude is missing
saveInstalledManifest(fs, report, manifest) ==
    IF CLAUDE_DIR \in fs.dirs
    THEN Outcome([fs EXCEPT !.ops = Append(@, Op("write", "manifest"))],
                 manifest, report)
    ELSE Outcome(fs, manifestFile, [report EXCEPT !.exit = "threw"])

\* cli.js init, after the providers are determined
initRun(cmd, force, dryRun, providerIds) ==
    LET report == Report(cmd, dryRun, force, providerIds)
    IN  IF ~loadPackageManifest.present
        THEN Outcome(FS, manifestFile, [report EXCEPT !.exit = "exit1"])
        ELSE
        LET installed == loadInstalledManifest
            fs0 == createBaseDirs(FS, providerIds)
            acc == initLoop(1, [fs |-> fs0, created |-> {}, updated |-> {},
                                skipped |-> {}, files |-> NoFiles],
                            installed, providerIds, force, dryRun)
            newManifest == [state |-> "valid", version |-> pkg.version,
                            providers |-> providerIds, files |-> acc.files]
            done == [report EXCEPT !.created = acc.created,
                                   !.updated = acc.updated,
                                   !.skipped = acc.skipped]
        IN  IF ~dryRun THEN saveInstalledManifest(acc.fs, done, newManifest)
            ELSE Outcome(acc.fs, manifestFile, done)


(***************************************************************************)
(* update                                                                  *)
(***************************************************************************)
\* update: const providerIds = installed.providers || ['claude']
installedProviders(installed) ==
    IF installed.providers = NoProviders THEN <<"claude">> ELSE installed.providers

\* update: packageFiles, the shipped keys of the installed providers
packageFiles(providerIds) ==
    {k \in DOMAIN pkg.files : includes(providerIds, fileProvider(k))}

toAdd(installed, providerIds) ==
    packageFiles(providerIds) \ DOMAIN installed.files

toRemoveSwapped(installed, providerIds) ==
    packageFiles(providerIds) \ DOMAIN installed.files

toRemove(installed, providerIds) ==
    DOMAIN installed.files \ packageFiles(providerIds)

toUpdate(installed, providerIds) ==
    {k \in packageFiles(providerIds) \cap DOMAIN installed.files :
        isNewer(pkg.files[k], installed.files[k].version)}

\* update: the body of the "Add new files" loop
addFile(acc, k, dryRun) ==
    IF k \notin srcPresent THEN acc
    ELSE [acc EXCEPT !.fs = copyFile(acc.fs, k, FALSE, dryRun),
                     !.created = @ \cup {k},
                     !.files = Put(@, k, Entry(pkg.files[k], NoVersion))]

\* update: the body of the "Update changed files" loop
updateFile(acc, k, installed, dryRun) ==
    IF k \notin srcPresent THEN acc
    ELSE [acc EXCEPT !.fs = copyFile(acc.fs, k, TRUE, dryRun),
                     !.updated = @ \cup {k},
                     !.files = Put(@, k, Entry(pkg.files[k],
                                               installed.files[k].version))]

\* update: the body of the "Keep unchanged files" loop
keepFile(acc, k, installed, providerIds) ==
    IF k \in toAdd(installed, providerIds) \/ k \in toUpdate(installed, providerIds)
    THEN acc
    ELSE [acc EXCEPT !.files = Put(@, k, installed.files[k])]

RECURSIVE updateLoops(_, _, _, _, _, _)
\* phase 1 adds, phase 2 updates, phase 3 keeps; each in key order
updateLoops(phase, i, acc, installed, providerIds, dryRun) ==
    IF phase > 3 THEN acc
    ELSE IF i > Len(KeyOrder)
    THEN updateLoops(phase + 1, 1, acc, installed, providerIds, dryRun)
    ELSE LET k == KeyOrder[i]
             next == IF phase = 1 /\ k \in toAdd(installed, providerIds)
                     THEN addFile(acc, k, dryRun)
                     ELSE IF phase = 2 /\ k \in toUpdate(installed, providerIds)
                     THEN updateFile(acc, k, installed, dryRun)
                     ELSE IF phase = 3 /\ k \in packageFiles(providerIds)
                     THEN keepFile(acc, k, installed, providerIds)
                     ELSE acc
         IN  updateLoops(phase, i + 1, next, installed, providerIds, dryRun)

\* update: const newManifest = { version, installedAt, updatedFrom, files }
updateManifest(installed, files) ==
    [state |-> "valid", version |-> pkg.version, providers |-> NoProviders,
     files |-> files]

\* update, from "Filter files by installed providers" to its end
updateFiles(installed, report, dryRun) ==
    LET providerIds == installedProviders(installed)
        acc == updateLoops(1, 1, [fs |-> FS, created |-> {}, updated |-> {},
                                  skipped |-> {}, files |-> NoFiles],
                           installed, providerIds, dryRun)
        done == [report EXCEPT !.providerIds = providerIds,
                               !.created = acc.created,
                               !.updated = acc.updated,
                               !.removed = toRemove(installed, providerIds)]
    IN  IF ~dryRun
        THEN saveInstalledManifest(acc.fs, done,
                                   updateManifest(installed, acc.files))
        ELSE Outcome(acc.fs, manifestFile, done)

\* an update that goes on whatever the tool versions are
updateRunAnyVersion(dryRun, prompted) ==
    LET installed == loadInstalledManifest
        report == Report("update", dryRun, FALSE, NoProviders)
    IN  IF ~loadPackageManifest.present
        THEN Outcome(FS, manifestFile, [report EXCEPT !.exit = "exit1"])
        ELSE IF installed.state = "null"
        THEN LET r == initRun("update", FALSE, dryRun, prompted)
             IN  [r EXCEPT !.last.ranInit = TRUE]
        ELSE updateFiles(installed, report, dryRun)

\* cli.js update; prompted is what the prompt of init yields if update falls
\* back to init
updateRun(dryRun, prompted) ==
    LET installed == loadInstalledManifest
        report == Report("update", dryRun, FALSE, NoProviders)
    IN  IF ~loadPackageManifest.present
        THEN Outcome(FS, manifestFile, [report EXCEPT !.exit = "exit1"])
        ELSE IF installed.state = "null"
        THEN LET r == initRun("update", FALSE, dryRun, prompted)
             IN  [r EXCEPT !.last.ranInit = TRUE]
        ELSE IF ~isNewer(pkg.version, installed.version)
        THEN Outcome(FS, manifestFile, [report EXCEPT !.upToDate = TRUE])
        ELSE updateFiles(installed, report, dryRun)

(***************************************************************************)
(* Strings.  A command string is modelled by the sequence of its           *)
(* space-separated words; null is a value of its own.                      *)
(***************************************************************************)
Null == <<"(null)">>
EmptyString == << >>

\* Boolean(s) of JavaScript on a string or null: '' and null are falsy
Truthy(s) == s # Null /\ s # EmptyString

\* a || b
Or(a, b) == IF Truthy(a) THEN a ELSE b

\* parts.join(' && ')
RECURSIVE join(_)
join(parts) ==
    IF Len(parts) = 0 THEN EmptyString
    ELSE IF Len(parts) = 1 THEN parts[1]
    ELSE parts[1] \o <<"&&">> \o join(Tail(parts))

(***************************************************************************)
(* The project directory                                                   *)
(***************************************************************************)
\* dependencies map a name to a version range; a dependency is looked up as
\* deps[name] and taken as present when the value is truthy
NoDeps == [n \in {} |-> ""]

\* deps[name], as a condition
has(deps, name) == name \in DOMAIN deps /\ deps[name] # ""

\* the workspaces field of package.json is undefined, or an array of globs

\* a JSON file: absent, unreadable, not JSON, or an object with its fields
NoJson == [state |-> "absent", dependencies |-> NoDeps, devDependencies |-> NoDeps,
           workspaces |-> [defined |-> FALSE, globs |-> << >>]]
Json(deps, dev, ws) == [state |-> "valid", dependencies |-> deps,
                        devDependencies |-> dev, workspaces |-> ws]

\* a project directory: the names that exist in it, the content of its
\* package.json and composer.json and whether it is read and parses, the
\* <<file, text>> pairs of texts its files contain, and whether readdirSync
\* lists it
Project(files, packageJson, composerJson, contains) ==
    [files |-> files, packageJson |-> packageJson, composerJson |-> composerJson,
     contains |-> contains, readable |-> TRUE]
EmptyProject == Project({}, NoJson, NoJson, {})

\* existsSync(join(projectPath, name))
exists(p, name) == name \in p.files

\* detector.js safeReadDir
safeReadDir(p) == IF p.readable THEN p.files ELSE {}

\* f.endsWith(pattern.replace('*', '')), for the names and the glob
\* patterns of the model
EndsWith(f, pattern) ==
    \/ pattern = "*.csproj" /\ f = "App.csproj"
    \/ pattern = "*.sln" /\ f = "App.sln"
    \/ pattern = "*.fsproj" /\ f = "App.fsproj"
    \/ pattern = "*.xcodeproj" /\ f = "App.xcodeproj"
    \/ pattern = "*.xcworkspace" /\ f = "App.xcworkspace"

\* a parse that lets the failure of readFileSync or of JSON.parse through
safeParseJSONUnsafe(p, name) ==
    LET j == IF name = "package.json" THEN p.packageJson ELSE p.composerJson
    IN  IF ~exists(p, name) THEN NoJson
        ELSE IF j.state = "valid" THEN j
        ELSE [NoJson EXCEPT !.state = "threw"]

\* safeParseJSON(join(projectPath, name)): null unless the file parses
safeParseJSON(p, name) ==
    LET j == IF name = "package.json" THEN p.packageJson ELSE p.composerJson
    IN  IF exists(p, name) /\ j.state = "valid" THEN j ELSE NoJson

\* safeReadFile(path)?.includes(text)
fileIncludes(p, name, text) == exists(p, name) /\ <<name, text>> \in p.contains

(***************************************************************************)
(* stacks.js                                                               *)
(***************************************************************************)
\* a package manager has a name, install and run; null is NoPm
NoPm == [name |-> "(null)", install |-> Null, run |-> Null]

\* a framework has a name and a dev command; null is NoFramework
NoFramework == [name |-> "(null)", dev |-> Null]

\* STACKS, in the order of Object.entries: the id, the detect list, the
\* packageManagers with their lockfile (for java: their detect file, and the
\* name detectJavaPackageManager gives them) and the frameworks with the
\* text or dependency looked for, as far as the detector reads them
STACKS ==
    << [id |-> "node", detect |-> <<"package.json">>,
        packageManagers |->
          << [lockfile |-> "bun.lockb",
              pm |-> [name |-> "bun", install |-> <<"bun", "install">>,
                      run |-> <<"bun", "run">>]],
             [lockfile |-> "pnpm-lock.yaml",
              pm |-> [name |-> "pnpm", install |-> <<"pnpm", "install">>,
                      run |-> <<"pnpm", "run">>]],
             [lockfile |-> "yarn.lock",
              pm |-> [name |-> "yarn", install |-> <<"yarn", "install">>,
                      run |-> <<"yarn">>]],
             [lockfile |-> "package-lock.json",
              pm |-> [name |-> "npm", install |-> <<"npm", "install">>,
                      run |-> <<"npm", "run">>]] >>,
        frameworks |->
          << [detect |-> "next", fw |-> [name |-> "next", dev |-> <<"next", "dev">>]],
             [detect |-> "nuxt", fw |-> [name |-> "nuxt", dev |-> <<"nuxt", "dev">>]],
             [detect |-> "@remix-run", fw |-> [name |-> "remix",
                                               dev |-> <<"remix", "dev">>]],
             [detect |-> "astro", fw |-> [name |-> "astro",
                                          dev |-> <<"astro", "dev">>]],
             [detect |-> "vite", fw |-> [name |-> "vite", dev |-> <<"vite">>]],
             [detect |-> "express",
              fw |-> [name |-> "express", dev |-> <<"node", "src/index.js">>]],
             [detect |-> "fastify",
              fw |-> [name |-> "fastify", dev |-> <<"node", "src/index.js">>]],
             [detect |-> "@nestjs/core",
              fw |-> [name |-> "nestjs", dev |-> <<"nest", "start", "--watch">>]] >>],
       [id |-> "python",
        detect |-> <<"pyproject.toml", "requirements.txt",
                     "setup.py", "Pipfile">>,
        packageManagers |->
          << [lockfile |-> "poetry.lock",
              pm |-> [name |-> "poetry", install |-> <<"poetry", "install">>,
                      run |-> <<"poetry", "run">>]],
             [lockfile |-> "Pipfile.lock",
              pm |-> [name |-> "pipenv", install |-> <<"pipenv", "install">>,
                      run |-> <<"pipenv", "run">>]],
             [lockfile |-> "uv.lock", pm |-> [name |-> "uv",
                                              install |-> <<"uv", "sync">>,
                                              run |-> <<"uv", "run">>]],
             [lockfile |-> "requirements.txt",
              pm |-> [name |-> "pip",
                      install |-> <<"pip", "install", "-r", "requirements.txt">>,
                      run |-> EmptyString]] >>,
        frameworks |->
          << [detect |-> "django",
              fw |-> [name |-> "django",
                      dev |-> <<"python", "manage.py", "runserver">>]],
             [detect |-> "fastapi",
              fw |-> [name |-> "fastapi",
                      dev |-> <<"uvicorn", "app.main:app", "--reload">>]],
             [detect |-> "flask",
              fw |-> [name |-> "flask", dev |-> <<"flask", "run", "--reload">>]],
             [detect |-> "torch", fw |-> [name |-> "pytorch", dev |-> Null]],
             [detect |-> "tensorflow", fw |-> [name |-> "tensorflow",
                                               dev |-> Null]] >>],
       [id |-> "go", detect |-> <<"go.mod">>,
        packageManagers |-> << >>, frameworks |-> << >>],
       [id |-> "rust", detect |-> <<"Cargo.toml">>,
        packageManagers |-> << >>, frameworks |-> << >>],
       [id |-> "java",
        detect |-> <<"pom.xml", "build.gradle", "build.gradle.kts">>,
        packageManagers |->
          << [lockfile |-> "pom.xml", pm |-> [name |-> "maven",
                                              install |-> <<"mvn", "install">>,
                                              run |-> <<"mvn">>]],
             [lockfile |-> "build.gradle",
              pm |-> [name |-> "gradle", install |-> <<"gradle", "build">>,
                      run |-> <<"gradle">>]],
             [lockfile |-> "build.gradle.kts",
              pm |-> [name |-> "gradle-kts", install |-> <<"gradle", "build">>,
                      run |-> <<"gradle">>]] >>,
        frameworks |-> << >>],
       [id |-> "php", detect |-> <<"composer.json">>,
        packageManagers |-> << >>,
        frameworks |->
          << [detect |-> "laravel/framework",
              fw |-> [name |-> "laravel", dev |-> <<"php", "artisan", "serve">>]],
             [detect |-> "symfony/framework-bundle",
              fw |-> [name |-> "symfony", dev |-> <<"symfony", "server:start">>]],
             [detect |-> "wordpress", fw |-> [name |-> "wordpress", dev |-> Null]] >>],
       [id |-> "ruby", detect |-> <<"Gemfile">>,
        packageManagers |-> << >>,
        frameworks |->
          << [detect |-> "rails", fw |-> [name |-> "rails",
                                          dev |-> <<"rails", "server">>]],
             [detect |-> "sinatra", fw |-> [name |-> "sinatra", dev |-> Null]] >>],
       [id |-> "dotnet",
        detect |-> <<"*.csproj", "*.sln", "*.fsproj">>,
        packageManagers |-> << >>, frameworks |-> << >>],
       [id |-> "elixir", detect |-> <<"mix.exs">>,
        packageManagers |-> << >>, frameworks |-> << >>],
       [id |-> "swift",
        detect |-> <<"Package.swift", "*.xcodeproj", "*.xcworkspace">>,
        packageManagers |-> << >>, frameworks |-> << >>],
       [id |-> "dart", detect |-> <<"pubspec.yaml">>,
        packageManagers |-> << >>, frameworks |-> << >>] >>

\* STACKS[id]
Stack(id) == STACKS[CHOOSE i \in 1..Len(STACKS) : STACKS[i].id = id]

\* MONOREPO_TOOLS, in the order of Object.entries
MONOREPO_TOOLS ==
    << [name |-> "turborepo", detect |-> "turbo.json"],
       [name |-> "nx", detect |-> "nx.json"],
       [name |-> "lerna", detect |-> "lerna.json"],
       [name |-> "rush", detect |-> "rush.json"],
       [name |-> "pnpmWorkspace", detect |-> "pnpm-workspace.yaml"],
       [name |-> "yarnWorkspaces", detect |-> "package.json"] >>

\* CI_PLATFORMS, in the order of Object.entries
CI_PLATFORMS ==
    << [name |-> "github", detect |-> ".github/workflows"],
       [name |-> "gitlab", detect |-> ".gitlab-ci.yml"],
       [name |-> "circleci", detect |-> ".circleci"],
       [name |-> "jenkins", detect |-> "Jenkinsfile"],
       [name |-> "travis", detect |-> ".travis.yml"],
       [name |-> "azure", detect |-> "azure-pipelines.yml"],
       [name |-> "bitbucket", detect |-> "bitbucket-pipelines.yml"] >>

\* the name of a monorepo tool, CI platform or tool that was not found
None == "(null)"

(***************************************************************************)
(* detector.js: detectStack                                                *)
(***************************************************************************)
\* a match that takes every detect entry as a file name
detectFileExists(p, detectFile) == exists(p, detectFile)

\* detectStack: whether one detect entry of a stack matches;
\* detectFile.includes('*') holds for the glob patterns
detectFileMatches(p, detectFile) ==
    IF detectFile \in {"*.csproj", "*.sln", "*.fsproj", "*.xcodeproj", "*.xcworkspace"}
    THEN \E f \in safeReadDir(p) : EndsWith(f, detectFile)
    ELSE exists(p, detectFile)

\* detectStack: "Detect primary stacks", the ids pushed, in STACKS order
RECURSIVE detectStacks(_, _)
detectStacks(p, i) ==
    IF i > Len(STACKS) THEN << >>
    ELSE LET stack == STACKS[i]
             hit == \E j \in 1..Len(stack.detect) : detectFileMatches(p, stack.detect[j])
         IN  (IF hit THEN <<stack.id>> ELSE << >>) \o detectStacks(p, i + 1)

\* the first entry of a table, from index i on, whose lockfile exists
RECURSIVE firstLockfile(_, _, _)
firstLockfile(p, managers, i) ==
    IF i > Len(managers) THEN NoPm
    ELSE IF exists(p, managers[i].lockfile) THEN managers[i].pm
    ELSE firstLockfile(p, managers, i + 1)

\* a resolution that does not look at the lockfiles
detectNodePackageManagerDefault(p) ==
    IF exists(p, "package.json") THEN Stack("node").packageManagers[4].pm ELSE NoPm

\* detector.js detectNodePackageManager
detectNodePackageManager(p) ==
    LET found == firstLockfile(p, Stack("node").packageManagers, 1)
    IN  IF found # NoPm THEN found
        ELSE IF exists(p, "package.json") THEN Stack("node").packageManagers[4].pm
        ELSE NoPm

\* the first framework of a table, from index i on, whose detect entry is
\* among the present ones
RECURSIVE firstFramework(_, _, _)
firstFramework(frameworks, present, i) ==
    IF i > Len(frameworks) THEN NoFramework
    ELSE IF frameworks[i].detect \in present THEN frameworks[i].fw
    ELSE firstFramework(frameworks, present, i + 1)

\* the dependencies alone
depsOfDependencies(json) == json.dependencies

\* const deps = { ...pkg.dependencies, ...pkg.devDependencies }
depsOf(json) ==
    [n \in DOMAIN json.dependencies \cup DOMAIN json.devDependencies |->
        IF n \in DOMAIN json.devDependencies THEN json.devDependencies[n]
        ELSE json.dependencies[n]]

\* detector.js detectNodeFramework
detectNodeFramework(p) ==
    LET pkgJson == safeParseJSON(p, "package.json")
        frameworks == Stack("node").frameworks
        deps == depsOf(pkgJson)
        present == {d \in DOMAIN deps : has(deps, d)}
    IN  IF pkgJson.state # "valid" THEN NoFramework
        ELSE firstFramework(frameworks, present, 1)

\* detector.js detectNodeTools; a field that is not set is None
detectNodeTools(p) ==
    LET pkgJson == safeParseJSON(p, "package.json")
        deps == depsOf(pkgJson)
    IN  IF pkgJson.state # "valid"
        THEN [test |-> None, linter |-> None, formatter |-> None, typechecker |-> None]
        ELSE [test |-> IF has(deps, "vitest") THEN "vitest"
                       ELSE IF has(deps, "jest") THEN "jest"
                       ELSE IF has(deps, "mocha") THEN "mocha"
                       ELSE IF has(deps, "ava") THEN "ava"
                       ELSE IF has(deps, "playwright") THEN "playwright"
                       ELSE IF has(deps, "cypress") THEN "cypress"
                       ELSE None,
              linter |-> IF has(deps, "@biomejs/biome") \/ has(deps, "biome") THEN "biome"
                         ELSE IF has(deps, "eslint") THEN "eslint"
                         ELSE IF has(deps, "oxlint") THEN "oxlint"
                         ELSE None,
              formatter |-> IF has(deps, "@biomejs/biome") \/ has(deps, "biome")
                            THEN "biome"
                            ELSE IF has(deps, "prettier") THEN "prettier"
                            ELSE IF has(deps, "dprint") THEN "dprint"
                            ELSE None,
              typechecker |-> IF has(deps, "typescript") THEN "tsc" ELSE None]

\* detector.js detectPythonPackageManager
detectPythonPackageManager(p) ==
    LET managers == Stack("python").packageManagers
        found == firstLockfile(p, managers, 1)
    IN  IF found # NoPm THEN found
        ELSE IF fileIncludes(p, "pyproject.toml", "[tool.poetry]") THEN managers[1].pm
        ELSE IF exists(p, "requirements.txt") THEN managers[4].pm
        ELSE NoPm

\* detector.js detectPythonFramework
detectPythonFramework(p) ==
    LET frameworks == Stack("python").frameworks
        present == {c[2] : c \in {x \in p.contains :
                                     \/ fileIncludes(p, "pyproject.toml", x[2])
                                     \/ fileIncludes(p, "requirements.txt", x[2])}}
    IN  firstFramework(frameworks, present, 1)

\* detector.js detectJavaPackageManager
detectJavaPackageManager(p) ==
    LET managers == Stack("java").packageManagers
    IN  IF exists(p, "pom.xml") THEN managers[1].pm
        ELSE IF exists(p, "build.gradle.kts") THEN managers[3].pm
        ELSE IF exists(p, "build.gradle") THEN managers[2].pm
        ELSE NoPm

\* detector.js detectRubyFramework
detectRubyFramework(p) ==
    LET frameworks == Stack("ruby").frameworks
        present == {c[2] : c \in {x \in p.contains : fileIncludes(p, "Gemfile", x[2])}}
    IN  firstFramework(frameworks, present, 1)

\* detector.js detectPHPFramework; require and require-dev are the
\* dependencies and devDependencies of the parsed composer.json
detectPHPFramework(p) ==
    LET composerJson == safeParseJSON(p, "composer.json")
        frameworks == Stack("php").frameworks
        deps == depsOf(composerJson)
        present == {d \in DOMAIN deps : has(deps, d)}
    IN  IF composerJson.state # "valid" THEN NoFramework
        ELSE firstFramework(frameworks, present, 1)

\* detector.js detectMonorepo, from index i of MONOREPO_TOOLS on;
\* !pkg?.workspaces holds when package.json does not parse or has no
\* workspaces field: an array, empty or not, is truthy
RECURSIVE detectMonorepo(_, _)
detectMonorepo(p, i) ==
    IF i > Len(MONOREPO_TOOLS) THEN None
    ELSE LET tool == MONOREPO_TOOLS[i]
             pkgJson == safeParseJSON(p, "package.json")
         IN  IF exists(p, tool.detect)
                /\ ~(tool.name = "yarnWorkspaces"
                     /\ (pkgJson.state # "valid" \/ ~pkgJson.workspaces.defined))
             THEN tool.name
             ELSE detectMonorepo(p, i + 1)

\* detector.js detectCI, from index i of CI_PLATFORMS on
RECURSIVE detectCI(_, _)
detectCI(p, i) ==
    IF i > Len(CI_PLATFORMS) THEN None
    ELSE IF exists(p, CI_PLATFORMS[i].detect) THEN CI_PLATFORMS[i].name
    ELSE detectCI(p, i + 1)

\* detectStack: const result = { stacks: [], packageManager: null, ... }
EmptyDetection ==
    [stacks |-> << >>, packageManager |-> NoPm, framework |-> NoFramework,
     monorepo |-> None, ci |-> None, testFramework |-> None, linter |-> None,
     formatter |-> None, typechecker |-> None]

\* detector.js detectStack; packageManager and framework are assigned for
\* node, then python, then java (packageManager) and ruby, then php
\* (framework), and the last assignment made is the one returned
detectStack(p) ==
    LET stacks == detectStacks(p, 1)
        tools == IF includes(stacks, "node") THEN detectNodeTools(p)
                 ELSE [test |-> None, linter |-> None, formatter |-> None,
                       typechecker |-> None]
    IN  [stacks |-> stacks,
         packageManager |->
             IF includes(stacks, "java") THEN detectJavaPackageManager(p)
             ELSE IF includes(stacks, "python") THEN detectPythonPackageManager(p)
             ELSE IF includes(stacks, "node") THEN detectNodePackageManager(p)
             ELSE NoPm,
         framework |->
             IF includes(stacks, "php") THEN detectPHPFramework(p)
             ELSE IF includes(stacks, "ruby") THEN detectRubyFramework(p)
             ELSE IF includes(stacks, "python") THEN detectPythonFramework(p)
             ELSE IF includes(stacks, "node") THEN detectNodeFramework(p)
             ELSE NoFramework,
         monorepo |-> detectMonorepo(p, 1),
         ci |-> detectCI(p, 1),
         testFramework |-> tools.test,
         linter |-> tools.linter,
         formatter |-> tools.formatter,
         typechecker |-> tools.typechecker]

(***************************************************************************)
(* detector.js: generateCommands                                           *)
(***************************************************************************)
\* generateCommands: const commands = { setup: null, ..., verify: null }
NoCommands ==
    [setup |-> Null, dev |-> Null, test |-> Null, lint |-> Null, format |-> Null,
     typecheck |-> Null, build |-> Null, verify |-> Null]

\* a verify that joins lint and test only
verifyOfLintTest(c) ==
    LET verifyParts == SelectSeq(<<c.lint, c.test>>, Truthy)
    IN  IF Len(verifyParts) > 0 THEN [c EXCEPT !.verify = join(verifyParts)] ELSE c

\* generateCommands: "Generate verify command (lint + test + build)"
withVerify(c) ==
    LET verifyParts == SelectSeq(<<c.lint, c.test, c.build>>, Truthy)
    IN  IF Len(verifyParts) > 0 THEN [c EXCEPT !.verify = join(verifyParts)] ELSE c

\* generateCommands: the switch on stack.id
commandsOfStack(id, pm, framework) ==
    CASE id = "node" ->
           LET run == Or(pm.run, <<"npm", "run">>)
           IN  [NoCommands EXCEPT !.setup = Or(pm.install, <<"npm", "install">>),
                                  !.dev = run \o <<"dev">>,
                                  !.test = run \o <<"test">>,
                                  !.lint = run \o <<"lint">>,
                                  !.format = run \o <<"format">>,
                                  !.typecheck = run \o <<"typecheck">>,
                                  !.build = run \o <<"build">>]
      [] id = "python" ->
           LET run == Or(pm.run, EmptyString)
               prefix == IF Truthy(run) THEN run ELSE EmptyString
           IN  [NoCommands EXCEPT
                  !.setup = Or(pm.install, <<"pip", "install", "-r", "requirements.txt">>),
                  !.dev = Or(framework.dev, prefix \o <<"python", "-m", "app">>),
                  !.test = prefix \o <<"pytest">>,
                  !.lint = prefix \o <<"ruff", "check", ".">>,
                  !.format = prefix \o <<"ruff", "format", ".">>,
                  !.typecheck = prefix \o <<"mypy", ".">>]
      [] id = "go" ->
           [NoCommands EXCEPT !.setup = <<"go", "mod", "download">>,
                              !.dev = <<"go", "run", ".">>,
                              !.test = <<"go", "test", "./...">>,
                              !.lint = <<"golangci-lint", "run">>,
                              !.format = <<"gofmt", "-w", ".">>,
                              !.build = <<"go", "build", "./...">>]
      [] id = "rust" ->
           [NoCommands EXCEPT !.setup = <<"cargo", "build">>,
                              !.dev = <<"cargo", "run">>,
                              !.test = <<"cargo", "test">>,
                              !.lint = <<"cargo", "clippy">>,
                              !.format = <<"cargo", "fmt">>,
                              !.build = <<"cargo", "build", "--release">>]
      [] id = "java" ->
           LET isMaven == pm.name = "maven"
           IN  [NoCommands EXCEPT
                  !.setup = IF isMaven THEN <<"mvn", "install", "-DskipTests">>
                            ELSE <<"gradle", "build", "-x", "test">>,
                  !.dev = IF isMaven THEN <<"mvn", "spring-boot:run">>
                          ELSE <<"gradle", "bootRun">>,
                  !.test = IF isMaven THEN <<"mvn", "test">> ELSE <<"gradle", "test">>,
                  !.lint = IF isMaven THEN <<"mvn", "checkstyle:check">>
                           ELSE <<"gradle", "checkstyleMain">>,
                  !.build = IF isMaven THEN <<"mvn", "package">>
                            ELSE <<"gradle", "build">>]
      [] id = "php" ->
           [NoCommands EXCEPT !.setup = <<"composer", "install">>,
                              !.test = <<"vendor/bin/phpunit">>,
                              !.lint = <<"vendor/bin/phpcs">>,
                              !.format = <<"vendor/bin/php-cs-fixer", "fix">>,
                              !.dev = Or(framework.dev, <<"php", "-S", "localhost:8000">>)]
      [] id = "ruby" ->
           [NoCommands EXCEPT !.setup = <<"bundle", "install">>,
                              !.test = <<"bundle", "exec", "rspec">>,
                              !.lint = <<"bundle", "exec", "rubocop">>,
                              !.format = <<"bundle", "exec", "rubocop", "-a">>,
                              !.dev = Or(framework.dev,
                                         <<"bundle", "exec", "ruby", "app.rb">>)]
      [] id = "dotnet" ->
           [NoCommands EXCEPT !.setup = <<"dotnet", "restore">>,
                              !.test = <<"dotnet", "test">>,
                              !.build = <<"dotnet", "build">>,
                              !.dev = <<"dotnet", "run">>,
                              !.format = <<"dotnet", "format">>]
      [] id = "elixir" ->
           [NoCommands EXCEPT !.setup = <<"mix", "deps.get">>,
                              !.test = <<"mix", "test">>,
                              !.lint = <<"mix", "credo">>,
                              !.format = <<"mix", "format">>,
                              !.dev = <<"mix", "phx.server">>]
      [] id = "dart" ->
           LET isFlutter == framework.name = "flutter"
           IN  [NoCommands EXCEPT
                  !.setup = IF isFlutter THEN <<"flutter", "pub", "get">>
                            ELSE <<"dart", "pub", "get">>,
                  !.test = IF isFlutter THEN <<"flutter", "test">> ELSE <<"dart", "test">>,
                  !.lint = <<"dart", "analyze">>,
                  !.format = <<"dart", "format", ".">>,
                  !.dev = IF isFlutter THEN <<"flutter", "run">> ELSE <<"dart", "run">>]
      [] id = "swift" ->
           [NoCommands EXCEPT !.build = <<"swift", "build">>,
                              !.test = <<"swift", "test">>,
                              !.dev = <<"swift", "run">>]
      [] OTHER -> NoCommands

\* a generateCommands that takes a detection without stacks as a node project
generateCommandsDefaultNode(detection) ==
    IF Len(detection.stacks) = 0
    THEN withVerify(commandsOfStack("node", detection.packageManager,
                                    detection.framework))
    ELSE withVerify(commandsOfStack(detection.stacks[1], detection.packageManager,
                                    detection.framework))

\* detector.js generateCommands
generateCommands(detection) ==
    IF Len(detection.stacks) = 0 THEN NoCommands
    ELSE withVerify(commandsOfStack(detection.stacks[1], detection.packageManager,
                                    detection.framework))

(***************************************************************************)
(* The command files.  A file is modelled by its code blocks, in order; a  *)
(* placeholder comment is the word "#" followed by its text.               *)
(***************************************************************************)
\* providers/claude.js generateCommandFile
generateCommandFile(name, commands) ==
    CASE name = "test" ->
           << Or(commands.test,
                 <<"#", "No test command detected - configure in CLAUDE.md">>) >>
      [] name = "lint" ->
           << Or(commands.lint,
                 <<"#", "No lint command detected - configure in CLAUDE.md">>),
              Or(commands.format,
                 IF Truthy(commands.lint) THEN commands.lint \o <<"--fix">>
                 ELSE <<"#", "No format command detected">>) >>
      [] name = "verify" ->
           << Or(commands.verify,
                 Or(join(SelectSeq(<<commands.lint, commands.test, commands.build>>,
                                   Truthy)),
                    <<"#", "Configure verify steps in CLAUDE.md">>)) >>
      [] name = "setup" ->
           << Or(commands.setup,
                 <<"#", "No setup command detected - configure in CLAUDE.md">>) >>
      [] OTHER -> << >>

\* project.js generateCommandFile; commands.lint + ' --fix' converts a null
\* lint to the string 'null'
generateCommandFileOfProject(name, commands) ==
    CASE name = "test" ->
           << Or(commands.test,
                 <<"#", "No test command detected - configure in CLAUDE.md">>) >>
      [] name = "lint" ->
           << Or(commands.lint,
                 <<"#", "No lint command detected - configure in CLAUDE.md">>),
              Or(commands.format,
                 Or((IF commands.lint = Null THEN <<"null">> ELSE commands.lint)
                        \o <<"--fix">>,
                    <<"#", "No format command detected">>)) >>
      [] name = "verify" ->
           << Or(commands.verify,
                 Or(join(SelectSeq(<<commands.lint, commands.test, commands.build>>,
                                   Truthy)),
                    <<"#", "Configure verify steps in CLAUDE.md">>)) >>
      [] name = "setup" ->
           << Or(commands.setup,
                 <<"#", "No setup command detected - configure in CLAUDE.md">>) >>
      [] OTHER -> << >>

\* providers/cursor.js generateRule
generateRule(name, commands) ==
    CASE name = "test" -> << Or(commands.test, <<"#", "No test command detected">>) >>
      [] name = "lint" ->
           << Or(commands.lint, <<"#", "No lint command detected">>),
              Or(commands.format,
                 IF Truthy(commands.lint) THEN commands.lint \o <<"--fix">>
                 ELSE <<"#", "No format command detected">>) >>
      [] name = "verify" ->
           << Or(commands.verify,
                 Or(join(SelectSeq(<<commands.lint, commands.test, commands.build>>,
                                   Truthy)),
                    <<"#", "Configure verify steps">>)) >>
      [] name = "setup" -> << Or(commands.setup, <<"#", "No setup command detected">>) >>
      [] OTHER -> << >>

(***************************************************************************)
(* providers/index.js                                                      *)
(***************************************************************************)
\* the outcome of resolveProviders is the list of the provider ids, or a
\* thrown error

\* const VALID_CHOICES = new Set(['claude', 'cursor', 'both'])
VALID_CHOICES == {"claude", "cursor", "both"}

\* a resolver that looks the choice up in PROVIDERS without validating it
resolveProvidersUnchecked(choice) ==
    IF choice = "both" THEN [threw |-> FALSE, ids |-> <<"claude", "cursor">>]
    ELSE [threw |-> FALSE, ids |-> <<choice>>]

\* providers/index.js resolveProviders
resolveProviders(choice) ==
    IF choice \notin VALID_CHOICES THEN [threw |-> TRUE, ids |-> << >>]
    ELSE IF choice = "both" THEN [threw |-> FALSE, ids |-> <<"claude", "cursor">>]
    ELSE [threw |-> FALSE, ids |-> <<choice>>]

(***************************************************************************)
(* detector.js: analyzeWithClaude                                          *)
(***************************************************************************)
\* ANALYSIS_FILES, as far as the names of the model go
ANALYSIS_FILES ==
    {"package.json", "pyproject.toml", "requirements.txt", "go.mod", "Cargo.toml",
     "composer.json", "Gemfile", "pom.xml", "build.gradle", "build.gradle.kts",
     "mix.exs", "pubspec.yaml", "Package.swift", "App.csproj", "turbo.json", "nx.json",
     "pnpm-workspace.yaml", "lerna.json", ".gitlab-ci.yml", "Jenkinsfile",
     "biome.json", "tsconfig.json"}

\* readProjectFiles: the analysis files that exist and can be read
readProjectFiles(p) ==
    {f \in p.files \cap ANALYSIS_FILES :
        ~(f = "package.json" /\ p.packageJson.state = "unreadable")}

\* how the run of `claude -p --model haiku` ends: the CLI is not found, it
\* times out, it exits non-zero, or it prints text without a JSON object,
\* a JSON object that does not parse, one without stack, one without
\* commands, or a full analysis
SubprocessOutcomes ==
    {"enoent", "timeout", "nonzero", "noJson", "badJson", "noStack", "noCommands",
     "analysis"}

\* convertToStackFormat(analysis.stack) and analysis.commands of the
\* analysis the subprocess prints
AiAnalysis ==
    [ok |-> TRUE, threw |-> FALSE,
     stack |-> [EmptyDetection EXCEPT !.stacks = <<"go">>, !.testFramework = "go test"],
     commands |-> [NoCommands EXCEPT !.test = <<"make", "test">>,
                                     !.verify = <<"make", "verify">>]]

\* the result of analyzeWithClaude when it is null (threw: when it throws)
NullAnalysis == [ok |-> FALSE, threw |-> FALSE, stack |-> EmptyDetection,
                 commands |-> NoCommands]

\* an analyzeWithClaude whose catch rethrows what execSync throws
analyzeWithClaudeRethrow(p, outcome) ==
    IF readProjectFiles(p) = {} THEN NullAnalysis
    ELSE IF outcome \in {"enoent", "timeout", "nonzero"}
    THEN [NullAnalysis EXCEPT !.threw = TRUE]
    ELSE IF outcome = "analysis" THEN AiAnalysis
    ELSE NullAnalysis

\* detector.js analyzeWithClaude, given how the subprocess ends
analyzeWithClaude(p, outcome) ==
    IF readProjectFiles(p) = {} THEN NullAnalysis
    ELSE IF outcome \in {"enoent", "timeout", "nonzero"} THEN NullAnalysis
    ELSE IF outcome = "noJson" THEN NullAnalysis
    ELSE IF outcome = "badJson" THEN NullAnalysis
    ELSE IF outcome \in {"noStack", "noCommands"} THEN NullAnalysis
    ELSE AiAnalysis

(***************************************************************************)
(* project.js: the project wizard                                          *)
(***************************************************************************)
\* the fields of a provider the wizard reads: projectDir, instructionFile,
\* the directories mkdirSync creates for getDirectories(), and the paths
\* of generateProjectFiles
ProviderOf(id) ==
    IF id = "claude"
    THEN [projectDir |-> ".claude", instructionFile |-> "CLAUDE.md",
          directories |-> {".claude", ".claude/commands"},
          files |-> {"CLAUDE.md", ".claude/settings.json",
                     ".claude/commands/test.md", ".claude/commands/lint.md",
                     ".claude/commands/verify.md", ".claude/commands/setup.md",
                     ".claude/commands/pr.md", ".claude/commands/commit.md",
                     ".claude/commands/worktree.md", ".claude/commands/fix.md"}]
    ELSE [projectDir |-> ".cursor", instructionFile |-> ".cursorrules",
          directories |-> {".cursor", ".cursor/rules"},
          files |-> {".cursorrules",
                     ".cursor/rules/test.mdc", ".cursor/rules/lint.mdc",
                     ".cursor/rules/verify.mdc", ".cursor/rules/setup.mdc",
                     ".cursor/rules/pr.mdc", ".cursor/rules/commit.mdc",
                     ".cursor/rules/worktree.mdc", ".cursor/rules/fix.mdc"}]

\* what the user types at a yes/no prompt
ConfirmAnswers == {"", "y", "Y", "yes", "n", "N", "no"}

\* createPrompt().confirm: return answer.toLowerCase() !== 'n'
confirm(answer) ==
    LET toLowerCase == CASE answer = "Y" -> "y"
                         [] answer = "N" -> "n"
                         [] OTHER -> answer
    IN  toLowerCase # "n"

\* createPrompt().select: options[parseInt(answer) - 1] || options[0]
select(answer, options) ==
    LET index == parseInt(answer) - 1
    IN  IF parseInt(answer) # NaN /\ index + 1 \in 1..Len(options)
        THEN options[index + 1] ELSE options[1]


\* the wizard before it is started
IdleWizard ==
    [pc |-> "idle", pending |-> {}, suspended |-> {}, dryRun |-> FALSE, force |-> FALSE,
     provider |-> "null", rl |-> "none", providers |-> << >>, useAI |-> FALSE,
     answer |-> "", analyzed |-> "no", stack |-> EmptyDetection,
     commands |-> NoCommands, source |-> "none", proceed |-> "none", rules |-> 0,
     mergeChoice |-> "none", useMerge |-> FALSE, result |-> "none", written |-> {},
     made |-> {}, merged |-> {}]

\* an operation is started and the component suspends until it completes
issue(w, component, op, pc) ==
    [w EXCEPT !.pending = @ \cup {op}, !.suspended = @ \cup {component}, !.pc = pc]

\* a continuation that runs without its operation having completed
noAwait(w, op) == w

\* await: the continuation runs when the operation has completed
await(w, op) == [w EXCEPT !.pending = @ \ {op}]

\* an end of the run that leaves the prompt interface open
returnedOpen(w, result) == [w EXCEPT !.result = result, !.pc = "returned"]

\* prompt.close() and the end of the run: return null on a cancellation,
\* throw error in the catch
closed(w, result) == [w EXCEPT !.rl = "closed", !.result = result, !.pc = "returned"]

\* the fallback and the no-AI branch: detectStack and generateCommands, to
\* the prompt 'Proceed with this configuration?'
deterministic(w, p) ==
    LET stack == detectStack(p)
    IN  issue([w EXCEPT !.stack = stack, !.commands = generateCommands(stack),
                        !.source = "detector"],
              "wizard", "confirm:proceed", "confirmProceed")

\* the wizard asks whether to use the AI analysis, after the providers are
\* resolved
askUseAI(w, r) ==
    IF r.threw THEN closed(w, "threw")
    ELSE issue([w EXCEPT !.providers = r.ids], "wizard", "confirm:ai", "confirmAI")

\* hasExisting: some provider's projectDir or instructionFile exists
hasExisting(p, providers) ==
    \E i \in 1..Len(providers) :
        \/ exists(p, ProviderOf(providers[i]).projectDir)
        \/ exists(p, ProviderOf(providers[i]).instructionFile)

\* from prompt.close() at the end of the prompts to the return of the
\* config: nothing is written on a dry run; otherwise the directories are
\* made and smartWrite writes each file, merging the ones that exist; on a
\* disk that cannot be written the first mkdirSync throws, and the catch
\* closes the prompt again and throws the error on
finish(w, p, useMerge, disk) ==
    LET c == [closed(w, "config") EXCEPT !.useMerge = useMerge]
        directories == UNION {ProviderOf(w.providers[i]).directories :
                                 i \in 1..Len(w.providers)}
        files == UNION {ProviderOf(w.providers[i]).files : i \in 1..Len(w.providers)}
    IN  IF w.dryRun THEN c
        ELSE IF disk = "readonly" THEN closed(c, "threw")
        ELSE [c EXCEPT !.made = directories \ p.files,
                       !.written = files,
                       !.merged = IF useMerge THEN files \cap p.files ELSE {}]

\* runProjectWizard, to its first prompt
runProjectWizard ==
    /\ wiz.pc \in {"idle", "returned"}
    /\ \E dryRun \in BOOLEAN,
          provider \in {"null", "claude", "cursor", "both", "gemini"} :
         LET w == [IdleWizard EXCEPT !.dryRun = dryRun, !.provider = provider,
                                     !.rl = "open"]
         IN  wiz' = IF provider # "null"
                    THEN askUseAI(w, resolveProviders(provider))
                    ELSE issue(w, "wizard", "select:provider", "selectProvider")
    /\ UNCHANGED <<providerOf, pkg, srcPresent, dest, backups, dirs, manifestFile,
                   clock, last, compared, rendered, project, detected, generated,
                   resolved>>

\* the provider is selected
providerSelected ==
    /\ wiz.pc = "selectProvider"
    /\ \E answer \in Answers :
         LET w == [await(wiz, "select:provider") EXCEPT !.answer = answer]
         IN  wiz' = askUseAI(w, resolveProviders(select(answer, Choices)))
    /\ UNCHANGED <<providerOf, pkg, srcPresent, dest, backups, dirs, manifestFile,
                   clock, last, compared, rendered, project, detected, generated,
                   resolved>>

\* 'Use AI analysis?' is answered
useAIAnswered ==
    /\ wiz.pc = "confirmAI"
    /\ \E answer \in ConfirmAnswers :
         LET w == [await(wiz, "confirm:ai") EXCEPT !.answer = answer,
                                                   !.useAI = confirm(answer)]
         IN  wiz' = IF ~confirm(answer) THEN deterministic(w, project)
                    ELSE IF readProjectFiles(project) = {}
                    THEN deterministic([w EXCEPT !.analyzed = "null"], project)
                    ELSE issue(w, "analyzer", "subprocess:claude", "analyze")
    /\ UNCHANGED <<providerOf, pkg, srcPresent, dest, backups, dirs, manifestFile,
                   clock, last, compared, rendered, project, detected, generated,
                   resolved>>

\* the subprocess of analyzeWithClaude ends; the wizard takes the analysis
\* or falls back
analyzed ==
    /\ wiz.pc = "analyze"
    /\ \E outcome \in SubprocessOutcomes :
         LET w == [await(wiz, "subprocess:claude") EXCEPT !.answer = outcome]
             a == analyzeWithClaude(project, outcome)
         IN  wiz' = IF a.threw THEN closed(w, "threw")
                    ELSE IF a.ok
                    THEN issue([w EXCEPT !.analyzed = "analysis", !.stack = a.stack,
                                         !.commands = a.commands, !.source = "ai"],
                               "wizard", "confirm:proceed", "confirmProceed")
                    ELSE deterministic([w EXCEPT !.analyzed = "null"], project)
    /\ UNCHANGED <<providerOf, pkg, srcPresent, dest, backups, dirs, manifestFile,
                   clock, last, compared, rendered, project, detected, generated,
                   resolved>>

\* 'Proceed with this configuration?' is answered
proceedAnswered ==
    /\ wiz.pc = "confirmProceed"
    /\ \E answer \in ConfirmAnswers :
         LET w == [await(wiz, "confirm:proceed") EXCEPT !.answer = answer,
                                                        !.proceed = answer]
         IN  wiz' = IF ~confirm(answer) THEN closed(w, "null")
                    ELSE issue(w, "wizard", "ask:rule", "askRule")
    /\ UNCHANGED <<providerOf, pkg, srcPresent, dest, backups, dirs, manifestFile,
                   clock, last, compared, rendered, project, detected, generated,
                   resolved>>

\* a custom rule, or the empty line that ends the rules, is entered
ruleAnswered ==
    /\ wiz.pc = "askRule"
    /\ \E rule \in {"", "rule"}, disk \in {"ok", "readonly"} :
         LET w == [await(wiz, "ask:rule") EXCEPT !.answer = rule]
         IN  IF rule # ""
             THEN /\ wiz.rules < MaxRules
                  /\ wiz' = issue([w EXCEPT !.rules = @ + 1], "wizard", "ask:rule",
                                  "askRule")
                  /\ UNCHANGED project
             ELSE IF hasExisting(project, w.providers)
             THEN /\ wiz' = issue(w, "wizard", "select:merge", "selectMerge")
                  /\ UNCHANGED project
             ELSE /\ wiz' = finish(w, project, FALSE, disk)
                  /\ project' = [project EXCEPT
                                    !.files = @ \cup wiz'.made \cup wiz'.written]
    /\ UNCHANGED <<providerOf, pkg, srcPresent, dest, backups, dirs, manifestFile,
                   clock, last, compared, rendered, detected, generated, resolved>>

\* 'How would you like to proceed?' is answered
mergeSelected ==
    /\ wiz.pc = "selectMerge"
    /\ \E answer \in Answers, disk \in {"ok", "readonly"} :
         LET mergeChoice == select(answer, <<"Merge", "Overwrite", "Cancel">>)
             w == [await(wiz, "select:merge") EXCEPT !.answer = answer,
                                                     !.mergeChoice = mergeChoice]
         IN  IF mergeChoice = "Cancel"
             THEN wiz' = closed(w, "null") /\ UNCHANGED project
             ELSE /\ wiz' = finish(w, project, mergeChoice = "Merge", disk)
                  /\ project' = [project EXCEPT
                                    !.files = @ \cup wiz'.made \cup wiz'.written]
    /\ UNCHANGED <<providerOf, pkg, srcPresent, dest, backups, dirs, manifestFile,
                   clock, last, compared, rendered, detected, generated, resolved>>

(***************************************************************************)
(* The detector, the command generator and the resolver called on their    *)
(* own                                                                     *)
(***************************************************************************)
\* a call: armed when it is the call of this behaviour, done once made
NotDetected == [armed |-> FALSE, done |-> FALSE, threw |-> FALSE,
                result |-> EmptyDetection]
NotGenerated == [armed |-> FALSE, done |-> FALSE, arg |-> EmptyDetection,
                 result |-> NoCommands]
NotRendered ==
    [armed |-> FALSE, done |-> FALSE, generator |-> "", name |-> "", arg |-> NoCommands,
     result |-> << >>]
NotResolved == [armed |-> FALSE, done |-> FALSE, arg |-> "",
                result |-> [threw |-> TRUE, ids |-> << >>]]

\* the names detectStack, detectMonorepo and detectCI look for
MarkerFiles ==
    {"package.json", "pyproject.toml", "requirements.txt", "setup.py", "Pipfile",
     "go.mod", "Cargo.toml", "pom.xml", "build.gradle", "build.gradle.kts",
     "composer.json", "Gemfile", "App.csproj", "App.sln", "App.fsproj", "mix.exs",
     "Package.swift", "App.xcodeproj", "App.xcworkspace", "pubspec.yaml"}
        \cup {MONOREPO_TOOLS[i].detect : i \in 1..Len(MONOREPO_TOOLS)}
        \cup {CI_PLATFORMS[i].detect : i \in 1..Len(CI_PLATFORMS)}

\* a directory of the given names whose JSON files have no dependencies and
\* no workspaces
PlainProject(files) ==
    Project(files,
            IF "package.json" \in files THEN Json(NoDeps, NoDeps, NoJson.workspaces)
            ELSE NoJson,
            IF "composer.json" \in files THEN Json(NoDeps, NoDeps, NoJson.workspaces)
            ELSE NoJson,
            {})

\* the subsets of S of at most n elements
RECURSIVE SubsetsUpTo(_, _)
SubsetsUpTo(S, n) ==
    IF n = 0 THEN {{}}
    ELSE LET smaller == SubsetsUpTo(S, n - 1)
         IN  smaller \cup {x \cup {a} : x \in smaller, a \in S}

\* the directories detectStack is called on:
\*  - directories of at most MaxFiles marker files;
\*  - directories with package.json, any lockfiles of node and less than
\*    MaxFiles other marker files;
\*  - directories with a package.json of at most MaxTools dependencies among
\*    the test tools and linters, each in dependencies, in devDependencies or
\*    in both;
\*  - directories with a package.json that is unreadable, malformed, without
\*    workspaces, with an empty and with a non-empty workspaces array, and
\*    some monorepo markers;
\*  - directories with a package.json and a composer.json that each parse,
\*    cannot be read or are cut short, some names the glob patterns match and
\*    Package.swift, whose listing succeeds or fails
Projects ==
    LET node == Stack("node").packageManagers
        lockfiles == {node[i].lockfile : i \in 1..Len(node)}
        tools == {"vitest", "jest", "mocha", "ava", "playwright", "cypress",
                  "@biomejs/biome", "biome", "eslint", "oxlint"}
        monorepoFiles == {MONOREPO_TOOLS[i].detect : i \in 1..Len(MONOREPO_TOOLS)}
    IN  {PlainProject(fs) : fs \in SubsetsUpTo(MarkerFiles, MaxFiles)}
        \cup
        {PlainProject({"package.json"} \cup ls \cup os) :
            ls \in SUBSET lockfiles, os \in SubsetsUpTo(MarkerFiles, MaxFiles - 1)}
        \cup
        {Project({"package.json"},
                 Json([n \in a |-> "^1.0.0"], [n \in b |-> "^1.0.0"], NoJson.workspaces),
                 NoJson, {}) :
            <<a, b>> \in UNION {(SUBSET u) \X (SUBSET u) :
                                   u \in SubsetsUpTo(tools, MaxTools)}}
        \cup
        {Project({"package.json"} \cup ms, j, NoJson, {}) :
            ms \in SubsetsUpTo(monorepoFiles, MaxFiles),
            j \in {[NoJson EXCEPT !.state = "unreadable"],
                   [NoJson EXCEPT !.state = "malformed"],
                   Json(NoDeps, NoDeps, NoJson.workspaces),
                   Json(NoDeps, NoDeps, [defined |-> TRUE, globs |-> << >>]),
                   Json(NoDeps, NoDeps, [defined |-> TRUE, globs |-> <<"packages/*">>])}}
        \cup
        {[Project({"package.json", "composer.json"} \cup gs,
                  [Json([n \in {"jest", "eslint"} |-> "^1.0.0"],
                        [n \in {"next", "typescript", "prettier"} |-> "^1.0.0"],
                        [defined |-> TRUE, globs |-> <<"packages/*">>])
                     EXCEPT !.state = sp],
                  [Json([n \in {"laravel/framework"} |-> "^1.0.0"], NoDeps,
                        NoJson.workspaces)
                     EXCEPT !.state = sc],
                  {}) EXCEPT !.readable = listed] :
            gs \in SUBSET {"App.csproj", "App.xcodeproj", "Package.swift"},
            sp \in {"valid", "unreadable", "malformed"},
            sc \in {"valid", "unreadable", "malformed"},
            listed \in BOOLEAN}

\* the detections generateCommands is given: of detectStack, and of the
\* conversion of an AI analysis
Detections ==
    {[EmptyDetection EXCEPT !.stacks = st, !.packageManager = pm, !.framework = fw,
                            !.monorepo = mono] :
        st \in {<< >>} \cup {<<STACKS[i].id>> : i \in 1..Len(STACKS)}
                  \cup {<<STACKS[i].id, "dart">> : i \in 1..Len(STACKS) - 1},
        pm \in {NoPm, [name |-> "pnpm", install |-> <<"pnpm", "install">>,
                       run |-> <<"pnpm">>],
                [name |-> "cargo", install |-> <<"cargo", "build">>,
                 run |-> EmptyString]}
                  \cup UNION {{STACKS[i].packageManagers[k].pm :
                                  k \in 1..Len(STACKS[i].packageManagers)} :
                                i \in 1..Len(STACKS)},
        fw \in {NoFramework, Stack("python").frameworks[1].fw,
                Stack("php").frameworks[1].fw, Stack("ruby").frameworks[1].fw,
                [name |-> "flutter", dev |-> Null]},
        mono \in {None, "turborepo"}}

\* the command sets the generators of command files are given: of
\* generateCommands, and of an AI analysis, whose fields are null or not
CommandSets ==
    {generateCommands(d) : d \in Detections}
        \cup {[NoCommands EXCEPT !.lint = l, !.format = f, !.test = t, !.verify = v] :
                 l \in {Null, <<"eslint", ".">>}, f \in {Null, <<"prettier", "-w", ".">>},
                 t \in {Null, <<"jest">>}, v \in {Null, <<"make", "verify">>}}

\* what resolveProviders is given: the choices, null, other strings and
\* inherited property names
ResolverInputs ==
    {"claude", "cursor", "both", "null", "", "Claude", "gemini", "toString",
     "constructor", "__proto__", "hasOwnProperty"}

detectStackCall ==
    /\ detected.armed /\ ~detected.done
    /\ detected' =
         [detected EXCEPT
            !.done = TRUE,
            !.threw = \/ /\ includes(detectStacks(project, 1), "node")
                         /\ safeParseJSON(project, "package.json").state = "threw"
                      \/ /\ includes(detectStacks(project, 1), "php")
                         /\ safeParseJSON(project, "composer.json").state = "threw",
            !.result = detectStack(project)]
    /\ UNCHANGED <<providerOf, pkg, srcPresent, dest, backups, dirs, manifestFile,
                   clock, last, compared, rendered, project, generated, resolved, wiz>>

generateCommandsCall ==
    /\ generated.armed /\ ~generated.done
    /\ generated' = [generated EXCEPT !.done = TRUE,
                                      !.result = generateCommands(generated.arg)]
    /\ UNCHANGED <<providerOf, pkg, srcPresent, dest, backups, dirs, manifestFile,
                   clock, last, compared, rendered, project, detected, resolved, wiz>>

resolveProvidersCall ==
    /\ resolved.armed /\ ~resolved.done
    /\ resolved' = [resolved EXCEPT !.done = TRUE,
                                    !.result = resolveProviders(resolved.arg)]
    /\ UNCHANGED <<providerOf, pkg, srcPresent, dest, backups, dirs, manifestFile,
                   clock, last, compared, rendered, project, detected, generated, wiz>>

\* generateCommandFile(name, config) of the Claude provider or of project.js,
\* or generateRule(name, config) of the Cursor provider
generateCommandFileCall ==
    /\ rendered.armed /\ ~rendered.done
    /\ rendered' =
         [rendered EXCEPT
            !.done = TRUE,
            !.result = CASE rendered.generator = "claude" ->
                              generateCommandFile(rendered.name, rendered.arg)
                         [] rendered.generator = "cursor" ->
                              generateRule(rendered.name, rendered.arg)
                         [] OTHER ->
                              generateCommandFileOfProject(rendered.name, rendered.arg)]
    /\ UNCHANGED <<providerOf, pkg, srcPresent, dest, backups, dirs, manifestFile,
                   clock, last, compared, project, detected, generated, resolved, wiz>>

(***************************************************************************)
(* The state machine                                                       *)
(***************************************************************************)
\* the run repeats the previous one: an init that follows an init of the
\* same providers from the same package, with nothing in between
Repeats(providerIds) ==
    /\ last.cmd = "init"
    /\ ~last.dryRun
    /\ last.providerIds = providerIds

\* npx clauderc init [--force] [--dry-run] [--provider p]
init ==
    \E force \in BOOLEAN, dryRun \in BOOLEAN,
       providerIds \in {determineProviders(p, a) :
                           p \in {"null", "claude", "cursor", "both"}, a \in Answers} :
        LET r == initRun("init", force, dryRun, providerIds)
        IN  /\ dest' = r.dest
            /\ backups' = r.backups
            /\ dirs' = r.dirs
            /\ manifestFile' = r.manifestFile
            /\ last' = [r.last EXCEPT !.again = Repeats(providerIds)]
            /\ UNCHANGED <<providerOf, pkg, srcPresent, clock, compared, projectVars>>

\* npx clauderc update [--dry-run]
update ==
    \E dryRun \in BOOLEAN,
       prompted \in {determineProviders("null", a) : a \in Answers} :
        LET r == updateRun(dryRun, prompted)
        IN  /\ dest' = r.dest
            /\ backups' = r.backups
            /\ dirs' = r.dirs
            /\ manifestFile' = r.manifestFile
            /\ last' = r.last
            /\ UNCHANGED <<providerOf, pkg, srcPresent, clock, compared, projectVars>>

\* another release of the package is fetched (or one whose manifest is missing)
Fetch(p, present) ==
    /\ <<p, present>> # <<pkg, srcPresent>>
    /\ pkg' = p
    /\ srcPresent' = present
    /\ last' = NoRun
    /\ UNCHANGED <<providerOf, dest, backups, dirs, manifestFile, clock, compared,
                   projectVars>>

Release ==
    \E p \in PackagesOver({"A"}, ToolVersions) \cup {NoPackage},
       present \in SourceSets :
        Fetch(p, present)

\* a second passes
Tick ==
    /\ clock < MaxClock
    /\ clock' = clock + 1
    /\ UNCHANGED <<providerOf, pkg, srcPresent, dest, backups, dirs, manifestFile,
                   last, compared, projectVars>>

\* the provider fields the manifest gives the keys
ProviderMaps == {[k \in Keys |-> "claude"], [k \in Keys |-> "cursor"]}

\* the home directories a user may start with
HomeDirs == {{}, AllDirs}

NotCompared == [v1 |-> NoVersion, v2 |-> NoVersion, done |-> FALSE, result |-> FALSE]

\* no project directory is set up in the behaviour
NoProject ==
    /\ project = EmptyProject
    /\ detected = NotDetected
    /\ generated = NotGenerated
    /\ resolved = NotResolved
    /\ rendered = NotRendered
    /\ wiz = IdleWizard

\* a home directory in which the CLI has not run yet
FreshHome ==
    /\ dirs \in HomeDirs
    /\ dest \in [Keys -> {Absent, UserContent}]
    /\ \A k \in Keys : dest[k] # Absent => destDir(k) \in dirs
    /\ backups = [s \in BackupSlots |-> Absent]
    /\ manifestFile \in {BrokenManifest(s) : s \in {"missing", "unreadable", "garbage"}}
    /\ manifestFile.state # "missing" => CLAUDE_DIR \in dirs
    /\ clock = 0
    /\ last = NoRun
    /\ compared = NotCompared
    /\ NoProject

\* releases that ship at most the key A, fetched in any order
Init ==
    /\ providerOf \in ProviderMaps
    /\ pkg \in PackagesOver({"A"}, ToolVersions) \cup {NoPackage}
    /\ srcPresent \in SourceSets
    /\ FreshHome
    /\ dest["B"] = Absent

Next == init \/ update \/ Release

Spec == Init /\ [][Next]_vars

(***************************************************************************)
(* A release line of three releases, fetched in order, with the clock      *)
(***************************************************************************)
ReleaseLine ==
    <<Package(V100, [k \in {"A"} |-> V100]),
      Package(V110, [k \in {"A"} |-> V100]),
      Package(V120, [k \in {"A", "B"} |-> V110])>>

Upgrade ==
    \E i \in 1..Len(ReleaseLine), j \in 1..Len(ReleaseLine) :
        /\ pkg = ReleaseLine[i]
        /\ j > i
        /\ Fetch(ReleaseLine[j], Keys)

InitUpgrade ==
    /\ providerOf \in ProviderMaps
    /\ pkg = ReleaseLine[1]
    /\ srcPresent = Keys
    /\ FreshHome

NextUpgrade == init \/ update \/ Upgrade \/ Tick

SpecUpgrade == InitUpgrade /\ [][NextUpgrade]_vars

(***************************************************************************)
(* isNewer on its own                                                      *)
(***************************************************************************)
\* the version strings of one, two or three components, and the missing one
VersionStrings ==
    {NoVersion} \cup UNION {[1..n -> 0..MaxComp] : n \in 1..3}

compare ==
    /\ ~compared.done
    /\ compared' = [compared EXCEPT !.done = TRUE,
                                    !.result = isNewer(compared.v1, compared.v2)]
    /\ UNCHANGED <<providerOf, pkg, srcPresent, dest, backups, dirs, manifestFile,
                   clock, last, projectVars>>

InitVer ==
    /\ providerOf \in {[k \in Keys |-> "claude"]}
    /\ pkg = NoPackage
    /\ srcPresent = Keys
    /\ dirs = {}
    /\ dest = [k \in Keys |-> Absent]
    /\ backups = [s \in BackupSlots |-> Absent]
    /\ manifestFile = BrokenManifest("missing")
    /\ clock = 0
    /\ last = NoRun
    /\ compared \in {[v1 |-> a, v2 |-> b, done |-> FALSE, result |-> FALSE] :
                        a \in VersionStrings, b \in VersionStrings}
    /\ NoProject

NextVer == compare

SpecVer == InitVer /\ [][NextVer]_vars

(***************************************************************************)
(* The detector, the command generator and the resolver, each called once  *)
(* on an input of its domain                                               *)
(***************************************************************************)
\* a home directory in which no command of the installer runs
IdleHome ==
    /\ providerOf \in {[k \in Keys |-> "claude"]}
    /\ pkg = ReleaseLine[1]
    /\ srcPresent = Keys
    /\ dirs = {}
    /\ dest = [k \in Keys |-> Absent]
    /\ backups = [s \in BackupSlots |-> Absent]
    /\ manifestFile = BrokenManifest("missing")
    /\ clock = 0
    /\ last = NoRun
    /\ compared = NotCompared

InitProject ==
    /\ IdleHome
    /\ wiz = IdleWizard
    /\ \/ /\ project \in Projects
          /\ detected = [NotDetected EXCEPT !.armed = TRUE]
          /\ generated = NotGenerated
          /\ resolved = NotResolved
          /\ rendered = NotRendered
       \/ /\ project = EmptyProject
          /\ detected = NotDetected
          /\ generated \in {[NotGenerated EXCEPT !.armed = TRUE, !.arg = d] :
                               d \in Detections}
          /\ resolved = NotResolved
          /\ rendered = NotRendered
       \/ /\ project = EmptyProject
          /\ detected = NotDetected
          /\ generated = NotGenerated
          /\ resolved \in {[NotResolved EXCEPT !.armed = TRUE, !.arg = c] :
                              c \in ResolverInputs}
          /\ rendered = NotRendered
       \/ /\ project = EmptyProject
          /\ detected = NotDetected
          /\ generated = NotGenerated
          /\ resolved = NotResolved
          /\ rendered \in {[NotRendered EXCEPT !.armed = TRUE, !.generator = g,
                                               !.name = n, !.arg = c] :
                              g \in {"claude", "cursor", "project"},
                              n \in {"test", "lint", "verify", "setup"},
                              c \in CommandSets}

NextProject ==
    \/ detectStackCall
    \/ generateCommandsCall
    \/ resolveProvidersCall
    \/ generateCommandFileCall

SpecProject == InitProject /\ [][NextProject]_vars

(***************************************************************************)
(* The wizard and the prompt of init                                       *)
(***************************************************************************)
\* the project directories the wizard is run in
WizardProjects ==
    {EmptyProject, PlainProject({"go.mod"}), PlainProject({"README.md"}),
     PlainProject({"package.json", "pnpm-lock.yaml"}),
     PlainProject({"go.mod", "CLAUDE.md"}),
     PlainProject({"package.json", ".cursor", ".cursorrules"})}

\* npx clauderc init without --provider, to its prompt
initAsked ==
    /\ wiz.pc = "idle"
    /\ \E force \in BOOLEAN, dryRun \in BOOLEAN :
         wiz' = issue([IdleWizard EXCEPT !.force = force, !.dryRun = dryRun,
                                         !.rl = "open"],
                      "installer", "question:provider", "initPrompt")
    /\ UNCHANGED <<providerOf, pkg, srcPresent, dest, backups, dirs, manifestFile,
                   clock, last, compared, rendered, project, detected, generated,
                   resolved>>

\* the prompt of init is answered and init runs to its end
initAnswered ==
    /\ wiz.pc = "initPrompt"
    /\ \E answer \in Answers :
         LET w == [await(wiz, "question:provider") EXCEPT !.answer = answer]
             providerIds == determineProviders("null", answer)
             r == initRun("init", wiz.force, wiz.dryRun, providerIds)
         IN  /\ dest' = r.dest
             /\ backups' = r.backups
             /\ dirs' = r.dirs
             /\ manifestFile' = r.manifestFile
             /\ last' = [r.last EXCEPT !.again = Repeats(providerIds)]
             /\ wiz' = [w EXCEPT !.rl = "closed", !.providers = providerIds,
                                 !.result = "installed", !.pc = "exited"]
    /\ UNCHANGED <<providerOf, pkg, srcPresent, clock, compared, rendered, project,
                   detected, generated, resolved>>

InitWizard ==
    /\ IdleHome
    /\ project \in WizardProjects
    /\ detected = NotDetected
    /\ generated = NotGenerated
    /\ resolved = NotResolved
    /\ rendered = NotRendered
    /\ wiz = IdleWizard

NextWizard ==
    \/ runProjectWizard
    \/ providerSelected
    \/ useAIAnswered
    \/ analyzed
    \/ proceedAnswered
    \/ ruleAnswered
    \/ mergeSelected
    \/ initAsked
    \/ initAnswered

SpecWizard == InitWizard /\ [][NextWizard]_vars

(***************************************************************************)
(* Properties                                                              *)
(***************************************************************************)
\* a step that is a run of the CLI (last is reset when the package changes)
RunStep ==
    /\ pkg' = pkg /\ srcPresent' = srcPresent /\ clock' = clock
    /\ compared' = compared
    /\ last'.cmd # "none"

Targets(ops, o, k) == \E i \in 1..Len(ops) : ops[i] = Op(o, k)
Touched(ops, k) == Targets(ops, "copy", k) \/ Targets(ops, "rename", k)
RenameThenCopy(ops, k) ==
    \E i \in 1..Len(ops), j \in 1..Len(ops) :
        i < j /\ ops[i] = Op("rename", k) /\ ops[j] = Op("copy", k)

SameFiles ==
    dest' = dest /\ backups' = backups /\ dirs' = dirs /\ manifestFile' = manifestFile

\* the keys the init loop does not skip over for the given providers
Processed(providerIds) ==
    {k \in DOMAIN pkg.files : includes(providerIds, fileProvider(k)) /\ k \in srcPresent}

\* C1: in every run that is not a dry run, a destination file that exists and
\* is overwritten has its previous content in the backup file of this second
\* when the run ends.
C1_OverwriteKeepsBackup ==
    [][(RunStep /\ ~last'.dryRun) =>
         \A k \in Keys :
            (dest[k] # Absent /\ Targets(last'.ops, "copy", k))
                => backups'[<<k, clock>>] = dest[k]]_vars

\* C2: an init without --force and without --dry-run that follows an init of
\* the same providers from the same package, with nothing in between, creates
\* nothing and updates nothing; every processed key is skipped.
C2_InitIdempotent ==
    (last.again /\ ~last.dryRun /\ ~last.force)
        => /\ last.created = {}
           /\ last.updated = {}
           /\ last.skipped = Processed(last.providerIds)
           /\ ~Targets(last.ops, "copy", "A") /\ ~Targets(last.ops, "copy", "B")

\* C3: a dry run leaves the filesystem as it was: no file copied, no backup
\* made, no manifest written, no directory created.
C3_DryRunChangesNothing ==
    [][(RunStep /\ last'.dryRun) => SameFiles]_vars

\* the three transitions of init for key k; applied says whether the run
\* writes (it is not a dry run); newer is the claim's update condition
InitTransition(k, applied, newer) ==
    /\ dest[k] = Absent =>
        /\ k \in last'.created /\ k \notin last'.updated \cup last'.skipped
        /\ applied => /\ dest'[k] = Shipped(pkg.files[k])
                      /\ backups'[<<k, clock>>] = backups[<<k, clock>>]
    /\ (dest[k] # Absent /\ (last'.force \/ newer)) =>
        /\ k \in last'.updated /\ k \notin last'.created \cup last'.skipped
        /\ applied => /\ backups'[<<k, clock>>] = dest[k]
                      /\ RenameThenCopy(last'.ops, k)
                      /\ dest'[k] = Shipped(pkg.files[k])
    /\ (dest[k] # Absent /\ ~last'.force /\ ~newer) =>
        /\ k \in last'.skipped /\ k \notin last'.created \cup last'.updated
        /\ dest'[k] = dest[k]
        /\ ~Touched(last'.ops, k)

InitStep == RunStep /\ (last'.cmd = "init" \/ last'.ranInit)

\* C4 as stated: every key an init processes takes one of the three
\* transitions, and the file is copied, or backed up and overwritten, or left.
C4_InitTransitionsAlways ==
    [][InitStep =>
         \A k \in Processed(last'.providerIds) :
            InitTransition(k, TRUE,
                isNewer(pkg.files[k], installedVersionOf(loadInstalledManifest, k)))]_vars

\* C4 amended: every key an init processes is counted by exactly one of the
\* three transitions, update being taken for --force, for a key with no
\* installed version and for a newer shipped version; a run that is not a dry
\* run copies, or backs up by renaming and then overwrites, or leaves the
\* file, and a dry run leaves every file as it is.
C4_InitTransitions ==
    [][InitStep =>
         \A k \in Processed(last'.providerIds) :
            /\ InitTransition(k, ~last'.dryRun,
                  \/ installedVersionOf(loadInstalledManifest, k) = NoVersion
                  \/ isNewer(pkg.files[k], installedVersionOf(loadInstalledManifest, k)))
            /\ last'.dryRun => (dest'[k] = dest[k] /\ ~Touched(last'.ops, k))]_vars

C4_Witness ==
    /\ last.cmd = "init" /\ ~last.dryRun /\ ~last.force
    /\ "A" \in last.updated
    /\ backups[<<"A", clock>>] = UserContent
    /\ dest["A"] = Shipped(pkg.files["A"])

\* the update scenario for keys a and b: the installed manifest is of an
\* older tool version and holds a at an older file version, the shipped
\* manifest holds a at a newer file version and the new key b, both sources
\* are present and both keys are of the same provider
UpdateScenario(a, b) ==
    /\ a # b
    /\ manifestFile.state = "valid"
    /\ pkg.present
    /\ isNewer(pkg.version, manifestFile.version)
    /\ a \in DOMAIN manifestFile.files /\ a \in DOMAIN pkg.files
    /\ isNewer(pkg.files[a], manifestFile.files[a].version)
    /\ b \in DOMAIN pkg.files /\ b \notin DOMAIN manifestFile.files
    /\ {a, b} \subseteq srcPresent
    /\ fileProvider(a) = fileProvider(b)

\* what the update scenario promises for a and b
UpdateScenarioDone(a, b) ==
    /\ dest[a] # Absent
    /\ backups'[<<a, clock>>] = dest[a]
    /\ RenameThenCopy(last'.ops, a)
    /\ dest'[a] = Shipped(pkg.files[a])
    /\ a \in last'.updated
    /\ dest'[b] = Shipped(pkg.files[b])
    /\ b \in last'.created
    /\ manifestFile'.state = "valid"
    /\ {a, b} \subseteq DOMAIN manifestFile'.files
    /\ manifestFile'.files[a].version = pkg.files[a]
    /\ manifestFile'.files[b].version = pkg.files[b]

\* C5: in the update scenario an update that is not a dry run backs up and
\* overwrites A, creates B and saves a manifest that records both at their
\* shipped versions.
C5_UpdateScenario ==
    [][(RunStep /\ last'.cmd = "update" /\ ~last'.dryRun) =>
         \A a \in Keys, b \in Keys :
            UpdateScenario(a, b) => UpdateScenarioDone(a, b)]_vars

\* the installed keys the shipped manifest no longer has
Deprecated == DOMAIN manifestFile.files \ DOMAIN pkg.files

UpdateOfInstalled ==
    RunStep /\ last'.cmd = "update" /\ manifestFile.state = "valid" /\ pkg.present

\* C6 as stated: update reports every installed key that the shipped
\* manifest no longer has as deprecated and leaves its file untouched.
C6_DeprecatedReportedAlways ==
    [][UpdateOfInstalled =>
         \A k \in Deprecated :
            /\ k \in last'.removed
            /\ dest'[k] = dest[k] /\ ~Touched(last'.ops, k)]_vars

\* C6 amended: update leaves the file of every installed key that the
\* shipped manifest no longer has untouched, and reports the key as
\* deprecated when the shipped tool version is newer than the installed one
\* (otherwise it stops at "Already up to date" and reports nothing).
C6_DeprecatedUntouched ==
    [][UpdateOfInstalled =>
         \A k \in Deprecated :
            /\ dest'[k] = dest[k] /\ ~Touched(last'.ops, k)
            /\ isNewer(pkg.version, manifestFile.version) => k \in last'.removed
            /\ ~isNewer(pkg.version, manifestFile.version) => last'.removed = {}]_vars

C6_Witness ==
    /\ last.cmd = "update" /\ ~last.ranInit /\ ~last.dryRun
    /\ "A" \in last.removed
    /\ "A" \notin DOMAIN pkg.files
    /\ dest["A"] # Absent

\* C7: isNewer(v1, v2) is true exactly when the zero-padded triple of v1 is
\* lexicographically greater than the zero-padded triple of v2.
C7_IsNewerPadded ==
    compared.done =>
        compared.result = isNewerLexicographic(compared.v1, compared.v2)

\* C8: the persisted installed manifest records the selected providers.
C8_ProvidersRecorded ==
    manifestFile.state = "valid" => manifestFile.providers # NoProviders

\* C9: without a shipped manifest init and update exit with a non-zero code
\* and copy, back up, create and write nothing.
C9_MissingPackageFatal ==
    [][(RunStep /\ ~pkg.present) =>
         /\ last'.exit = "exit1"
         /\ last'.ops = << >>
         /\ SameFiles]_vars

C9_Witness ==
    /\ ~pkg.present
    /\ last.cmd = "update"
    /\ last.exit = "exit1"
    /\ manifestFile.state = "valid"

\* C10: with an installed manifest that is missing, unreadable or not JSON,
\* update runs init, init updates every processed key whose file exists
\* (none has an installed version) and skips none, and the run does not fail
\* on the manifest it could not read.
C10_BrokenManifestIsNoInstallation ==
    [][(RunStep /\ pkg.present /\ manifestFile.state # "valid") =>
         /\ last'.cmd = "update" => last'.ranInit
         /\ ~last'.upToDate
         /\ last'.skipped = {}
         /\ \A k \in Processed(last'.providerIds) :
               dest[k] # Absent => k \in last'.updated
         /\ manifestFile.state # "missing" => last'.exit = "ok"]_vars

C10_Witness ==
    /\ manifestFile.state = "garbage"
    /\ last.cmd = "update" /\ last.ranInit /\ last.dryRun
    /\ "A" \in last.updated

(***************************************************************************)
(* Properties of the detector, the command generator and the resolver      *)
(***************************************************************************)
\* the non-null values of three commands, in their order, joined by ' && '
JoinNonNull(a, b, c) ==
    LET parts == SelectSeq(<<a, b, c>>, LAMBDA s : s # Null)
    IN  CASE Len(parts) = 0 -> Null
          [] Len(parts) = 1 -> parts[1]
          [] Len(parts) = 2 -> parts[1] \o <<"&&">> \o parts[2]
          [] OTHER -> parts[1] \o <<"&&">> \o parts[2] \o <<"&&">> \o parts[3]

\* C14: for every detection, verify of the commands generateCommands
\* returns is the ' && '-join of the non-null values among lint, test and
\* build, in that order; verify is null exactly when all three are null;
\* and a primary stack of go yields
\* 'golangci-lint run && go test ./... && go build ./...'.
C14_VerifyJoinsLintTestBuild ==
    generated.done =>
        LET c == generated.result
        IN  /\ c.verify = JoinNonNull(c.lint, c.test, c.build)
            /\ c.verify = Null <=> (c.lint = Null /\ c.test = Null /\ c.build = Null)
            /\ (Len(generated.arg.stacks) > 0 /\ generated.arg.stacks[1] = "go") =>
                  c.verify = <<"golangci-lint", "run", "&&", "go", "test", "./...", "&&",
                               "go", "build", "./...">>

C14_Witness ==
    /\ generated.done
    /\ generated.arg.stacks = <<"go", "dart">>
    /\ generated.result.verify = <<"golangci-lint", "run", "&&", "go", "test", "./...",
                                   "&&", "go", "build", "./...">>

\* C15: for a detection without a matched stack, every one of the eight
\* fields of the commands generateCommands returns is null, whatever the
\* package manager, framework and monorepo of the detection are.
C15_NoStackNoCommands ==
    (generated.done /\ Len(generated.arg.stacks) = 0) =>
        \A field \in {"setup", "dev", "test", "lint", "format", "typecheck", "build",
                      "verify"} :
            generated.result[field] = Null

C15_Witness ==
    /\ generated.done
    /\ Len(generated.arg.stacks) = 0
    /\ generated.arg.packageManager.name = "pnpm"
    /\ generated.arg.framework.name = "django"
    /\ generated.result.setup = Null

\* the file a detect entry of a stack names (a glob names the file of the
\* model that ends with its suffix)
DetectionFile(d) ==
    IF \E f \in MarkerFiles : EndsWith(f, d)
    THEN CHOOSE f \in MarkerFiles : EndsWith(f, d)
    ELSE d

\* C16: for every supported stack, detectStack on a directory that holds
\* exactly one detection file of that stack (the primary, first one
\* included) and nothing else returns that stack as the first matched stack
\* and no other stack.
C16_OneDetectionFileOneStack ==
    detected.done =>
        \A i \in 1..Len(STACKS) :
            \A j \in 1..Len(STACKS[i].detect) :
                project.files = {DetectionFile(STACKS[i].detect[j])} =>
                    detected.result.stacks = <<STACKS[i].id>>

C16_Witness ==
    /\ detected.done
    /\ project.files = {"App.csproj"}
    /\ detected.result.stacks = <<"dotnet">>

\* C17: for a directory of package.json and any subset of the four node
\* lockfiles, the package manager detectStack resolves is the one of the
\* first lockfile present in the order bun, pnpm, yarn, npm, and npm when
\* there is no lockfile.
C17_LockfilePriority ==
    (detected.done /\ "package.json" \in project.files
                   /\ project.files \subseteq
                         {"package.json", "bun.lockb", "pnpm-lock.yaml", "yarn.lock",
                          "package-lock.json"}) =>
        detected.result.packageManager.name =
            IF "bun.lockb" \in project.files THEN "bun"
            ELSE IF "pnpm-lock.yaml" \in project.files THEN "pnpm"
            ELSE IF "yarn.lock" \in project.files THEN "yarn"
            ELSE "npm"

C17_Witness ==
    /\ detected.done
    /\ project.files = {"package.json", "yarn.lock", "package-lock.json"}
    /\ detected.result.packageManager = [name |-> "yarn",
                                         install |-> <<"yarn", "install">>,
                                         run |-> <<"yarn">>]

\* C18: in a directory whose only monorepo marker is package.json, the
\* monorepo detectStack reports is yarnWorkspaces when package.json declares
\* a non-empty workspaces array, and there is no monorepo match when the
\* workspaces field is empty or missing.
C18_WorkspacesMonorepo ==
    (detected.done
       /\ project.files \cap {"turbo.json", "nx.json", "lerna.json", "rush.json",
                              "pnpm-workspace.yaml", "package.json"}
             = {"package.json"}) =>
        LET json == project.packageJson
        IN  IF json.state = "valid" /\ json.workspaces.defined
               /\ Len(json.workspaces.globs) > 0
            THEN detected.result.monorepo = "yarnWorkspaces"
            ELSE detected.result.monorepo = None

\* the first name of a precedence list that is among the dependencies
RECURSIVE FirstPresent(_, _)
FirstPresent(names, present) ==
    IF Len(names) = 0 THEN None
    ELSE IF names[1] \in present THEN names[1]
    ELSE FirstPresent(Tail(names), present)

\* C19: the test tool detectStack resolves for a node project is the first
\* of vitest, jest, mocha, ava, playwright, cypress present in the union of
\* dependencies and devDependencies, and the linter the first of biome,
\* eslint, oxlint.
C19_NodeToolPrecedence ==
    (detected.done /\ project.files = {"package.json"}
                   /\ project.packageJson.state = "valid") =>
        LET union == DOMAIN project.packageJson.dependencies
                         \cup DOMAIN project.packageJson.devDependencies
            present == IF "@biomejs/biome" \in union THEN union \cup {"biome"} ELSE union
        IN  /\ detected.result.testFramework =
                  FirstPresent(<<"vitest", "jest", "mocha", "ava", "playwright",
                                 "cypress">>, present)
            /\ detected.result.linter =
                  FirstPresent(<<"biome", "eslint", "oxlint">>, present)

C19_Witness ==
    /\ detected.done
    /\ DOMAIN project.packageJson.dependencies = {"jest", "eslint"}
    /\ DOMAIN project.packageJson.devDependencies = {"vitest"}
    /\ detected.result.testFramework = "vitest"
    /\ detected.result.linter = "eslint"

\* C20: resolveProviders returns the list of the claude provider for
\* 'claude', of the cursor provider for 'cursor', of both in that order for
\* 'both', and throws for every other input, null and the names of
\* inherited properties included.
C20_ResolveProviders ==
    resolved.done =>
        CASE resolved.arg = "claude" ->
               ~resolved.result.threw /\ resolved.result.ids = <<"claude">>
          [] resolved.arg = "cursor" ->
               ~resolved.result.threw /\ resolved.result.ids = <<"cursor">>
          [] resolved.arg = "both" ->
               ~resolved.result.threw /\ resolved.result.ids = <<"claude", "cursor">>
          [] OTHER -> resolved.result.threw

C20_Witness ==
    /\ resolved.done
    /\ resolved.arg = "constructor"
    /\ resolved.result.threw

(***************************************************************************)
(* Properties of the wizard                                                *)
(***************************************************************************)
\* C11: an explicit no (n, N or no) to 'Proceed with this configuration?'
\* makes the wizard return null at once, without making a directory or
\* writing a file and without throwing.
C11_NoCancelsTheWizard ==
    [][(wiz.pc = "confirmProceed" /\ wiz'.answer \in {"n", "N", "no"}) =>
         /\ wiz'.pc = "returned"
         /\ wiz'.result = "null"
         /\ wiz'.made = {} /\ wiz'.written = {}
         /\ project' = project]_vars

\* C12: when the analysis fails (the CLI is not found, it times out or
\* exits non-zero, its output has no JSON object, JSON that does not parse,
\* or JSON without stack or without commands), analyzeWithClaude returns
\* null without throwing, and the wizard goes on with the results of
\* detectStack and generateCommands.
C12_AnalysisFailureFallsBack ==
    [][(wiz.pc = "analyze" /\ wiz'.answer \in SubprocessOutcomes \ {"analysis"}) =>
         /\ wiz'.result # "threw"
         /\ wiz'.analyzed = "null"
         /\ wiz'.source = "detector"
         /\ wiz'.stack = detectStack(project)
         /\ wiz'.commands = generateCommands(detectStack(project))
         /\ wiz'.pc = "confirmProceed"]_vars

C12_Witness ==
    /\ wiz.useAI
    /\ wiz.answer = "enoent"
    /\ wiz.analyzed = "null"
    /\ wiz.pc = "confirmProceed"
    /\ wiz.stack.stacks = <<"node">>
    /\ wiz.commands.setup = <<"pnpm", "install">>

\* one operation at most is in flight, and only while its caller waits
OneAtATime ==
    /\ Cardinality(wiz.pending) <= 1
    /\ wiz.pending # {} <=>
          wiz.pc \in {"selectProvider", "confirmAI", "analyze", "confirmProceed",
                      "askRule", "selectMerge", "initPrompt"}

Plan(r) ==
    [created |-> r.created, updated |-> r.updated, skipped |-> r.skipped,
     removed |-> r.removed, upToDate |-> r.upToDate,
     counts |-> IF r.exit = "threw" THEN << >>
                ELSE <<Cardinality(r.created), Cardinality(r.updated),
                       Cardinality(r.skipped), Cardinality(r.removed)>>]

\* the run of this step made from the same state with --dry-run the other way
Twin ==
    IF last'.cmd = "init"
    THEN initRun("init", last'.force, ~last'.dryRun, last'.providerIds).last
    ELSE updateRun(~last'.dryRun,
                   IF last'.ranInit THEN last'.providerIds ELSE <<"claude">>).last

\* C22: a dry run of init or update and the real run from the same
\* filesystem and manifest give every key the same classification and
\* report the same counts.
C22_DryRunSamePlan ==
    [][RunStep => Plan(last') = Plan(Twin)]_vars

\* an update of an installation whose shipped tool version is newer, that
\* is not a dry run and saves its manifest
UpdateApplied ==
    /\ UpdateOfInstalled
    /\ isNewer(pkg.version, manifestFile.version)
    /\ ~last'.dryRun
    /\ last'.exit = "ok"

\* C23: in update the sets add, update and deprecated are pairwise disjoint,
\* and every shipped key in neither add nor update that has an entry in the
\* installed manifest has that entry, unchanged, in the new manifest.
C23_DisjointAndCarriedOver ==
    [][UpdateApplied =>
         LET installed == loadInstalledManifest
             providerIds == installedProviders(installed)
             add == toAdd(installed, providerIds)
             upd == toUpdate(installed, providerIds)
             deprecated == toRemove(installed, providerIds)
         IN  /\ add \cap upd = {}
             /\ add \cap deprecated = {}
             /\ upd \cap deprecated = {}
             /\ \A k \in (DOMAIN pkg.files \cap DOMAIN installed.files) \ (add \cup upd) :
                   /\ k \in DOMAIN manifestFile'.files
                   /\ manifestFile'.files[k] = installed.files[k]]_vars

\* C25: after an update that is not a dry run, every key of the previous
\* installed manifest that the shipped manifest still has for the installed
\* providers is in the new installed manifest.
C25_InstalledKeysKept ==
    [][UpdateApplied =>
         \A k \in DOMAIN manifestFile.files
                    \cap packageFiles(installedProviders(loadInstalledManifest)) :
            k \in DOMAIN manifestFile'.files]_vars

\* C27: when the shipped tool version is not newer than the installed one,
\* update reports "Already up to date" and copies, backs up, creates and
\* writes nothing, whatever the shipped file versions and keys are.
C27_UpToDateChangesNothing ==
    [][(UpdateOfInstalled /\ ~isNewer(pkg.version, manifestFile.version)) =>
         /\ last'.upToDate
         /\ last'.ops = << >>
         /\ last'.created = {} /\ last'.updated = {} /\ last'.removed = {}
         /\ SameFiles]_vars

C27_Witness ==
    /\ last.cmd = "update" /\ last.upToDate /\ ~last.dryRun
    /\ manifestFile.state = "valid"
    /\ pkg.present
    /\ "A" \in DOMAIN pkg.files \cap DOMAIN manifestFile.files
    /\ isNewer(pkg.files["A"], manifestFile.files["A"].version)
    /\ dest["A"] = Shipped(manifestFile.files["A"].version)

\* C30: a backup keeps every earlier backup: a backup file that exists is
\* never replaced.
C30_BackupsKept ==
    [][\A s \in BackupSlots : backups[s] # Absent => backups'[s] = backups[s]]_vars


(***************************************************************************)
(* Properties of the command files                                         *)
(***************************************************************************)
\* a code block that is a placeholder comment
IsPlaceholder(block) == Len(block) > 0 /\ block[1] = "#"

\* a code block for a command: the command when it is not null, and the
\* placeholder otherwise
BlockOf(block, command) ==
    IF command # Null THEN block = command ELSE IsPlaceholder(block)

\* C21: in the test, lint, verify and setup files of every generator each
\* code block holds the resolved command or a placeholder comment; a null
\* command gives the placeholder, never text built from the null value.
C21_NullGivesPlaceholder ==
    rendered.done =>
        LET c == rendered.arg
            blocks == rendered.result
        IN  /\ \A i \in 1..Len(blocks) :
                  \A j \in 1..Len(blocks[i]) : blocks[i][j] # "null"
            /\ rendered.name = "test" => BlockOf(blocks[1], c.test)
            /\ rendered.name = "setup" => BlockOf(blocks[1], c.setup)
            /\ rendered.name = "lint" =>
                  /\ BlockOf(blocks[1], c.lint)
                  /\ c.format # Null => blocks[2] = c.format
                  /\ (c.format = Null /\ c.lint # Null) =>
                        blocks[2] = c.lint \o <<"--fix">>
                  /\ (c.format = Null /\ c.lint = Null) => IsPlaceholder(blocks[2])
            /\ rendered.name = "verify" =>
                  /\ c.verify # Null => blocks[1] = c.verify
                  /\ (c.verify = Null /\ c.lint = Null /\ c.test = Null /\ c.build = Null)
                        => IsPlaceholder(blocks[1])


(***************************************************************************)
(* Properties of detectStack on files it cannot use                        *)
(***************************************************************************)
\* the names of the frameworks of a stack
FrameworkNames(id) ==
    {Stack(id).frameworks[i].fw.name : i \in 1..Len(Stack(id).frameworks)}

\* C24: detectStack never throws; a package.json or composer.json that
\* exists but cannot be read or is not JSON gives no framework, no tools and
\* no workspaces, whatever its text holds, and a directory whose listing
\* fails matches the stacks an empty listing matches: those with a
\* detection file found by name.
C24_DetectStackNeverThrows ==
    detected.done =>
        LET r == detected.result
        IN  /\ ~detected.threw
            /\ ("package.json" \in project.files
                  /\ project.packageJson.state \in {"unreadable", "malformed"}) =>
                  /\ r.framework.name \notin FrameworkNames("node")
                  /\ r.testFramework = None /\ r.linter = None
                  /\ r.formatter = None /\ r.typechecker = None
                  /\ r.monorepo # "yarnWorkspaces"
            /\ ("composer.json" \in project.files
                  /\ project.composerJson.state \in {"unreadable", "malformed"}) =>
                  r.framework.name \notin FrameworkNames("php")
            /\ ~project.readable =>
                  \A i \in 1..Len(STACKS) :
                     includes(r.stacks, STACKS[i].id)
                        <=> \E j \in 1..Len(STACKS[i].detect) :
                               STACKS[i].detect[j] \in project.files

C24_Witness ==
    /\ detected.done
    /\ ~project.readable
    /\ project.files = {"package.json", "composer.json", "App.csproj"}
    /\ project.packageJson.state = "malformed"
    /\ has(project.packageJson.dependencies, "jest")
    /\ project.composerJson.state = "unreadable"
    /\ detected.result.stacks = <<"node", "php">>
    /\ detected.result.packageManager.name = "npm"
    /\ detected.result.framework = NoFramework


\* C26: a package manager and a framework that detectStack returns are
\* entries of the first matched stack, and those resolved for a first stack
\* node stay as resolved whatever other stacks match.
C26_PrimaryStackOwnsResult ==
    (detected.done /\ Len(detected.result.stacks) > 0) =>
        LET r == detected.result
            primary == Stack(r.stacks[1])
        IN  /\ r.packageManager # NoPm =>
                  \E i \in 1..Len(primary.packageManagers) :
                     primary.packageManagers[i].pm = r.packageManager
            /\ r.framework # NoFramework =>
                  \E i \in 1..Len(primary.frameworks) :
                     primary.frameworks[i].fw = r.framework
            /\ r.stacks[1] = "node" =>
                  /\ r.packageManager = detectNodePackageManager(project)
                  /\ r.framework = detectNodeFramework(project)


(***************************************************************************)
(* Properties of the wizard's writes and of its prompt interface           *)
(***************************************************************************)
\* the step makes a directory or writes a file of the project
WizardWrites ==
    \/ project' # project
    \/ /\ wiz'.pc = "returned" /\ wiz.pc # "returned"
       /\ wiz'.made # {} \/ wiz'.written # {}

\* C28: the wizard makes and writes nothing before the user has confirmed
\* the configuration (yes, or the default of the empty answer) and, when
\* configuration exists, has chosen Merge or Overwrite; in a run that is a
\* dry run or in which Cancel is chosen nothing is made or written.
C28_NoWriteBeforeConfirmation ==
    [][/\ WizardWrites =>
            /\ wiz'.proceed \in {"", "y", "Y", "yes"}
            /\ hasExisting(project, wiz'.providers) =>
                  wiz'.mergeChoice \in {"Merge", "Overwrite"}
       /\ (wiz'.dryRun \/ wiz'.mergeChoice = "Cancel") =>
            /\ project' = project
            /\ wiz'.made = {} /\ wiz'.written = {}]_vars

\* C29: however runProjectWizard ends (cancelled at the confirmation or at
\* the merge selection, dry run, completed, or an error thrown at any
\* step), the prompt interface it opened is closed.
C29_PromptClosed ==
    wiz.pc = "returned" => wiz.rl = "closed"

C29_Witness ==
    /\ wiz.pc = "returned"
    /\ wiz.result = "threw"
    /\ wiz.provider = "gemini"
    /\ wiz.rl = "closed"

====
